---- MODULE Spec2Model ----
(***************************************************************************)
(* Model of the caching engine of bigfix-mobile-enterprise (pkg/bfrest):   *)
(* the connection pool (bfconnection.go), the singleton cache, one server  *)
(* shard with its entry map, the fetch-and-transform step, the lookup and  *)
(* refresh logic of Get and the garbage collector (bfcache.go).            *)
(*                                                                         *)
(* Goroutines are modelled as processes whose steps are the operations on  *)
(* shared state (mutex, channel, sync.Map, clock, upstream); everything a  *)
(* goroutine does between two such operations is local and is folded into  *)
(* the step that follows.                                                  *)
(***************************************************************************)
EXTENDS Integers, Sequences, FiniteSets, TLC

(***************************************************************************)
(* Bounds of the model.                                                    *)
(***************************************************************************)
\* number of goroutines that call Get concurrently
NumCallers == 2
\* the clock runs from 0 to MaxTime (unix seconds)
MaxTime == 5
\* pool sizes 1..MaxPoolSize are passed to AddServer
MaxPoolSize == 2
\* TTL arguments 1..MaxTTL are passed to GetCache, 0..MaxTTL to AddServer
MaxTTL == 2
\* maximum lifetimes 1..MaxLifetime are passed to GetCache
MaxLifetime == 3
\* the LastUsed goroutines of cmd/bem that have not ended, at most
MaxUpdaters == 2
\* the BigFixCache objects a run creates at most: GetCache is not called
\* again once MaxInstances objects were created and the last one was reset
MaxInstances == 2

Callers == 1..NumCallers

(***************************************************************************)
(* Program constants.                                                      *)
(***************************************************************************)
\* GetCache: default TTL when maxAgeSeconds == 0
DefaultMaxAge == 300
\* GetCache: default ceiling when maxCacheLifetime == 0
DefaultMaxCacheLifetime == 86400

Min(a, b) == IF a < b THEN a ELSE b

(***************************************************************************)
(* URLs.  A URL is the record of the parts net/url.Parse yields; the       *)
(* request URL itself (the whole record) is the key of the entry map.      *)
(***************************************************************************)
\* a request for an XML resource of the registered server
UrlXml ==
    [scheme |-> "https", host |-> "u:52311", path |-> "/api/computers", query |-> "" ]
\* a relevance query of the registered server that asks for JSON output
UrlJson ==
    [scheme |-> "https", host |-> "u:52311", path |-> "/api/query", query |-> "output=json" ]
\* a request for a server that was never registered (host without port)
UrlOther ==
    [scheme |-> "https", host |-> "v", path |-> "/api/computers", query |-> "" ]
\* the base URL given to AddServer
ServerUrl ==
    [scheme |-> "https", host |-> "u:52311", path |-> "", query |-> "" ]

\* a base URL without port, as TestAddServer gives it to AddServer
UrlBare ==
    [scheme |-> "http", host |-> "test.com", path |-> "", query |-> "" ]

RequestUrls == {UrlXml, UrlJson, UrlOther}

\* a relevance query that asks for JSON with the format parameter
UrlJsonFormat ==
    [scheme |-> "https", host |-> "u:52311", path |-> "/api/query", query |-> "format=json" ]
\* a relevance query that asks for no output format
UrlQueryXml ==
    [scheme |-> "https", host |-> "u:52311", path |-> "/api/query", query |-> "relevance=x" ]
\* an XML resource requested with output=json
UrlXmlJson ==
    [scheme |-> "https", host |-> "u:52311", path |-> "/api/computers", query |-> "output=json" ]

\* the requests that tell the tests of the format detection apart
FormatUrls == {UrlXml, UrlJson, UrlJsonFormat, UrlQueryXml, UrlXmlJson}

\* string concatenation url + suffix, for a URL without query
UrlPlus(u, suffix) == [u EXCEPT !.path = @ \o suffix]

\* the Resource attributes of the index documents
UrlAction1   == UrlPlus(ServerUrl, "/api/action/1")
UrlComputer1 == UrlPlus(ServerUrl, "/api/computer/1")
UrlSite1     == UrlPlus(ServerUrl, "/api/site/custom/s")
UrlExternal1 == UrlPlus(ServerUrl, "/api/site/external/e")
UrlOperator1 == UrlPlus(ServerUrl, "/api/site/operator/o")
UrlMaster    == UrlPlus(ServerUrl, "/api/site/master")

\* the URLs given to AddServer
ServerUrls == {ServerUrl, UrlBare}

\* the string url.Parse was given: the text of a URL record
UrlString(u) ==
    u.scheme \o "://" \o u.host \o u.path \o (IF u.query = "" THEN "" ELSE "?" \o u.query)

\* strings.Contains(host, ":") and strings.Split(host, ":") on the model's hosts
HostParts(host) ==
    CASE host = "u:52311"  -> <<"u", "52311">>
      [] host = "v"        -> <<"v">>
      [] host = "test.com" -> <<"test.com">>

\* getBaseUrl: scheme + "://" + host + ":" + port, port empty when absent
getBaseUrl(fullURL) ==
    LET parts == HostParts(fullURL.host)
        host  == parts[1]
        port  == IF Len(parts) > 1 THEN parts[2] ELSE ""
    IN  fullURL.scheme \o "://" \o host \o ":" \o port

\* strings.Contains(parsedURL.Path, "/api/query")
PathContainsApiQuery(u) == u.path \in {"/api/query"}

\* a test that knows the output parameter only
QueryAsksJson_OutputOnly(u) == u.query \in {"output=json"}

\* queryParams.Get("output") == "json" || queryParams.Get("format") == "json"
QueryAsksJson(u) == u.query \in {"output=json", "format=json"}

\* retrieveBigFixData: the JSON passthrough test on the request URL
IsJsonPassthrough(u) == PathContainsApiQuery(u) /\ QueryAsksJson(u)

(***************************************************************************)
(* Upstream bodies and their transformation.                               *)
(***************************************************************************)
BodyBESAPI == "<BESAPI></BESAPI>"
BodyBES    == "<BES></BES>"
BodyEmpty  == ""

Bodies == {BodyBESAPI, BodyBES, BodyEmpty}

\* index documents: one action and one computer, one custom site
BodyIndexAC ==
    "<BESAPI><Action Resource='https://u:52311/api/action/1'/><Computer Resource='https://u:52311/api/computer/1'/></BESAPI>"
BodyIndexS ==
    "<BESAPI><CustomSite Resource='https://u:52311/api/site/custom/s'/></BESAPI>"

\* index documents: an external site and the action site, an operator site
BodyIndexEA ==
    "<BESAPI><ExternalSite Resource='https://u:52311/api/site/external/e'/><ActionSite Resource='https://u:52311/api/site/master'/></BESAPI>"
BodyIndexO ==
    "<BESAPI><OperatorSite Resource='https://u:52311/api/site/operator/o'/></BESAPI>"

IndexBodies == {BodyIndexAC, BodyIndexS, BodyIndexEA, BodyIndexO, BodyBESAPI}

\* resp.StatusCode of the upstream's answer
StatusOK       == 200
StatusNotFound == 404

Statuses == {StatusOK, StatusNotFound}

\* BFConnection.Get after c.Conn.Do succeeded: string(body) and a nil error,
\* whatever resp.StatusCode is
ConnGet(body, status) == [rawResponse |-> body, err |-> ""]

\* md5.Sum + hex.EncodeToString of the raw response
MD5(raw) ==
    CASE raw = BodyBESAPI -> "d53c67c9eacfbd483579e8f1fcf6b9e8"
      [] raw = BodyBES    -> "239fdfca0638b76687dd8eac640a4d1b"
      [] raw = BodyEmpty  -> "d41d8cd98f00b204e9800998ecf8427e"
      [] raw = BodyIndexAC -> "6fada1099ba734a730fb55498372026d"
      [] raw = BodyIndexS  -> "4beee5ebd7251b2371c11f63416f6d86"
      [] raw = BodyIndexEA -> "5c553fd17971d540802f7923ef0dc2a8"
      [] raw = BodyIndexO  -> "0f4e11a4acd82c56d210515f291de533"

\* strings.Contains(rawResponse, "BESAPI")
ContainsBESAPI(raw) ==
    raw \in {BodyBESAPI, BodyIndexAC, BodyIndexS, BodyIndexEA, BodyIndexO}

\* xml.Unmarshal succeeds on a well-formed document and fails (EOF) on an empty one
XmlUnmarshalOk(raw) == raw # BodyEmpty

\* json.Marshal of the parsed BESAPI / BES object
JsonMarshal(schema, raw) == "{" \o schema \o ":" \o raw \o "}"

(***************************************************************************)
(* Cache items.                                                            *)
(***************************************************************************)
CacheItem(ts, json, maxAge, baseMaxAge, hash) ==
    [Timestamp |-> ts, Json |-> json, MaxAge |-> maxAge,
     BaseMaxAge |-> baseMaxAge, ContentHash |-> hash]

\* the counters main.go and the /urls handler read from a CacheItem: the
\* struct of bfcache.go declares none and no statement of Get,
\* retrieveBigFixData or sweepExpiredItems sets one, so that a reader gets
\* the zero value
HitCount(item)  == 0
MissCount(item) == 0

\* the nil *CacheItem
NilItem == CacheItem(0, "", 0, 0, "")

\* an expiry test that already fires when the age equals MaxAge
IsExpired_AtMaxAge(item, t) == t - item.Timestamp >= item.MaxAge

\* Get / sweepExpiredItems: now - Timestamp > int64(MaxAge)
IsExpired(item, t) == t - item.Timestamp > item.MaxAge

\* Get: isEmpty || isExpired
NeedsRefresh(item, t) == item.Json = "" \/ IsExpired(item, t)

\* a comparison that trusts the stored hash only while the body is there
HashMatches_NeedsBody(cm, newItem) ==
    cm.Json # "" /\ cm.ContentHash # "" /\ newItem.ContentHash = cm.ContentHash

\* Get: cm.ContentHash != "" && newItem.ContentHash == cm.ContentHash
HashMatches(cm, newItem) ==
    cm.ContentHash # "" /\ newItem.ContentHash = cm.ContentHash

\* an extension that is not capped
ExtendedMaxAge_NoCap(cm, lifetime) == cm.MaxAge + cm.BaseMaxAge

\* Get: cm.MaxAge + cm.BaseMaxAge, capped at cache.MaxCacheLifetime
ExtendedMaxAge(cm, lifetime) ==
    LET newMaxAge == cm.MaxAge + cm.BaseMaxAge
    IN  IF newMaxAge > lifetime THEN lifetime ELSE newMaxAge

\* an extension that takes BaseMaxAge from the fresh item and its hash too
ExtendedItem_Fresh(cm, newItem, t, lifetime) ==
    CacheItem(newItem.Timestamp, newItem.Json, ExtendedMaxAge(cm, lifetime),
              newItem.BaseMaxAge, newItem.ContentHash)

\* Get: the item stored when the fresh hash equals the stored one
ExtendedItem(cm, newItem, t, lifetime) ==
    CacheItem(t, newItem.Json, ExtendedMaxAge(cm, lifetime), cm.BaseMaxAge, cm.ContentHash)

\* a reset that keeps the accumulated MaxAge
ResetItem_KeepsMaxAge(cm, newItem, t) ==
    CacheItem(t, newItem.Json, cm.MaxAge, cm.BaseMaxAge, newItem.ContentHash)

\* Get: the item stored when the fresh hash differs from the stored one
ResetItem(cm, newItem, t) ==
    CacheItem(t, newItem.Json, cm.BaseMaxAge, cm.BaseMaxAge, newItem.ContentHash)

\* an update that takes the accumulated MaxAge for the new base
UpdatedItem_BaseFromMaxAge(cm, newItem, t, lifetime) ==
    [(IF HashMatches(cm, newItem)
      THEN ExtendedItem(cm, newItem, t, lifetime)
      ELSE ResetItem(cm, newItem, t)) EXCEPT !.BaseMaxAge = cm.MaxAge]

\* Get: updatedItem
UpdatedItem(cm, newItem, t, lifetime) ==
    IF HashMatches(cm, newItem)
    THEN ExtendedItem(cm, newItem, t, lifetime)
    ELSE ResetItem(cm, newItem, t)

\* sweepExpiredItems: clearedItem
ClearedItem(item) ==
    CacheItem(item.Timestamp, "", item.MaxAge, item.BaseMaxAge, item.ContentHash)

\* a fetch that stores an unparsable response as an item without body
retrieveBigFixData_CachesParseError(u, raw, t, scMaxAge, marshalOk) ==
    IF IsJsonPassthrough(u) \/ ~XmlUnmarshalOk(raw)
    THEN [err |-> "", item |-> CacheItem(t, raw, scMaxAge, scMaxAge, MD5(raw))]
    ELSE LET schema == IF ContainsBESAPI(raw) THEN "BESAPI" ELSE "BES"
         IN  IF ~marshalOk
             THEN [err |-> "json.Marshal", item |-> NilItem]
             ELSE [err |-> "",
                   item |-> CacheItem(t, JsonMarshal(schema, raw), scMaxAge, scMaxAge, MD5(raw))]

\* retrieveBigFixData after conn.Get returned rawResponse without error:
\* the error ("" is nil) and the item it returns.  marshalOk is the outcome
\* of json.Marshal.
retrieveBigFixData(u, raw, t, scMaxAge, marshalOk) ==
    IF IsJsonPassthrough(u)
    THEN [err |-> "", item |-> CacheItem(t, raw, scMaxAge, scMaxAge, MD5(raw))]
    ELSE LET schema == IF ContainsBESAPI(raw) THEN "BESAPI" ELSE "BES"
         IN  IF ~XmlUnmarshalOk(raw)
             THEN [err |-> "xml.Unmarshal", item |-> NilItem]
             ELSE IF ~marshalOk
             THEN [err |-> "json.Marshal", item |-> NilItem]
             ELSE [err |-> "",
                   item |-> CacheItem(t, JsonMarshal(schema, raw), scMaxAge, scMaxAge, MD5(raw))]

(***************************************************************************)
(* Cache and shard construction.                                           *)
(***************************************************************************)
\* GetCache: the singleton built by the first call
GetCache(maxAgeSeconds, maxCacheLifetime) ==
    [MaxAge           |-> IF maxAgeSeconds = 0 THEN DefaultMaxAge ELSE maxAgeSeconds,
     MaxCacheLifetime |-> IF maxCacheLifetime = 0 THEN DefaultMaxCacheLifetime
                                                  ELSE maxCacheLifetime]

\* a shard TTL without the fallback to the cache's default
ServerMaxAge_NoDefault(c, maxAge) == maxAge

\* AddServer: serverMaxAge
ServerMaxAge(c, maxAge) == IF maxAge = 0 THEN c.MaxAge ELSE maxAge

\* AddServer: scInstance (its pool and entry map are the variables pool and
\* CacheMap)
NewServerCache(baseURL, serverMaxAge) == [ServerName |-> baseURL, MaxAge |-> serverMaxAge]

\* a nil *Pool: what NewPool returns beside its error
NilPool == [connections |-> << >>, closed |-> FALSE, mutex |-> 0, nil |-> TRUE]

\* no pool: the server of ServerUrl has not been added
NoPool == NilPool

\* NewPool: nil when size <= 0 (the error beside it is what the caller
\* tests); else a buffered channel holding size connections, open, mutex free
NewPool(size) ==
    IF size <= 0
    THEN NilPool
    ELSE [connections |-> [i \in 1..size |-> i], closed |-> FALSE, mutex |-> 0,
          nil |-> FALSE]

\* channel send on Pool.connections
ChanSend(q, conn) == Append(q, conn)

\* a receive that leaves the connection in the channel
ChanRecv_Peek(q) == q

\* channel receive on Pool.connections: what is left in the channel
ChanRecv(q) == Tail(q)

(***************************************************************************)
(* State.                                                                  *)
(***************************************************************************)
VARIABLES
    now,        \* time.Now().Unix()
    upstream,   \* the body the upstream server currently answers with
    cache,      \* BigFixCache: MaxAge, MaxCacheLifetime
    ServerCache,\* cache.ServerCache: base URL -> BigFixServerCache (ServerName, MaxAge)
    poolSize,   \* the size the shard's pool was created with
    pool,       \* sc.cpool: connections (channel), closed, mutex (holder or 0)
    closer,     \* where the goroutine that calls Pool.Close is: "idle", or
                \* "lock" between its call and the return of p.mutex.Lock()
    orphans,    \* the shards of the server that AddServer replaced while a Get
                \* was using them: their BigFixServerCache (sc) and pool
    CacheMap,   \* sc.CacheMap: request URL -> CacheItem
    g,          \* per caller: the goroutine running Get
    adder,      \* per caller: the goroutine running AddServer
    sweeper,    \* the goroutine of StartGarbageCollector
    ret,        \* history: what the step just taken returned from Get, if it returned
    extHist,    \* history, per key: the MaxAge of the entries replaced by the
                \* extensions stored since the last cold-miss or reset store
                \* (the two most recent ones)
    pop,        \* the goroutine running PopulateCoreTypes: the index it is at
                \* and the error it returned
    handler,    \* the goroutine running handleURLsEndpoint: its isCacheHit
    cacheInstance, \* the package variable: ptr is the BigFixCache it points to
                \* (0 is nil, k the k-th one created), made counts the created ones
    cacheMu,    \* the package mutex: its holder (0 is free), the function the
                \* holder runs and its arguments
    registrationOTPs,  \* cmd/bem: the slice of RegistrationOTP
    registeredClients, \* cmd/bem: the slice of RegisteredClient
    registrationMutex, \* cmd/bem: the goroutine holding the write lock (0 is free)
    activeSessions,    \* cmd/bem: session token -> expiresAt
    files,             \* registered_clients.json and registration_otps.json
    rq,                \* cmd/bem: per goroutine, the function it runs and where
    deleters,          \* the tokens a goroutine started by isValidSession is
                       \* about to delete
    issued,            \* history: the number of session tokens generated
    rret               \* history: what the cmd/bem step just taken returned

\* the state of cmd/bem
regVars == <<registrationOTPs, registeredClients, registrationMutex, activeSessions,
             files, rq, deleters, issued, rret>>

vars == <<now, upstream, cache, ServerCache, poolSize, pool, CacheMap, g, adder, sweeper,
          ret, extHist, pop, handler, cacheInstance, cacheMu, orphans, closer, regVars>>

(***************************************************************************)
(* cmd/bem: one-time keys, registered clients, admin sessions.  Its clock  *)
(* (now) counts hours.                                                     *)
(***************************************************************************)
\* the goroutines serving HTTP requests
RegClients == {1, 2}

\* the goroutine of watchRegistrationDirectory
WatcherProc == 3

\* the main goroutine
MainProc == 4

\* the goroutines isValidClientKey starts to update LastUsed, one per
\* accepted key
UpdaterProcs == (MainProc + 1)..(MainProc + MaxUpdaters)

RegProcs == RegClients \cup {WatcherProc, MainProc} \cup UpdaterProcs

\* a nil *time.Time
NilTime == -1

\* AddDate(0, 0, days), in hours
HoursPerDay == 24

\* createAdminSession: time.Now().Add(8 * time.Hour)
SessionHours == 8

\* RegistrationOTP
RegistrationOTP(name, key, days) ==
    [ClientName |-> name, OneTimeKey |-> key, KeyLifespanDays |-> days]

\* RegisteredClient; PublicKey 0 is a string that is no PEM public key, k > 0
\* is the PEM of the k-th key pair
RegisteredClient(name, publicKey, expiresAt, lastUsed, days) ==
    [ClientName |-> name, PublicKey |-> publicKey, ExpiresAt |-> expiresAt,
     LastUsed |-> lastUsed, KeyLifespanDays |-> days]

\* a goroutine of cmd/bem that runs nothing
\* (expiresAt, lastUsed and sessionToken are the locals of
\* generateAndRegisterClient and createAdminSession)
IdleRq == [pc |-> "idle", fn |-> "", otp |-> RegistrationOTP("", "", 0),
           expiresAt |-> NilTime, lastUsed |-> 0, sessionToken |-> 0]

\* the cmd/bem step just taken returned nothing
NoRRet == [proc |-> 0, fn |-> "none", status |-> 0, ok |-> FALSE, name |-> "",
           key |-> "", token |-> 0, at |-> 0]

\* no file has been written
NoFiles == [clients |-> << >>, otps |-> << >>]

\* cmd/bem before main has loaded anything: the package variables' zero values
RegIdle ==
    /\ registrationOTPs = << >>
    /\ registeredClients = << >>
    /\ registrationMutex = 0
    /\ activeSessions = << >>
    /\ files = NoFiles
    /\ rq = [p \in RegProcs |-> IdleRq]
    /\ deleters = {}
    /\ issued = 0
    /\ rret = NoRRet

\* a goroutine that is not inside Get; gen tells which shard object a Get
\* loaded: 0 is the one in cache.ServerCache, k > 0 is orphans[k]
IdleG == [pc |-> "idle", url |-> UrlXml, found |-> FALSE, cm |-> NilItem,
          conn |-> 0, raw |-> "", status |-> 0, fetchedAt |-> 0, err |-> "",
          newItem |-> NilItem, gen |-> 0]

\* a goroutine that is not inside AddServer
IdleA == [pc |-> "idle", url |-> ServerUrl, poolSize |-> 0, maxAge |-> 0]

\* the step just taken was not a return of Get
NoRet == [caller |-> 0, at |-> "none", url |-> UrlXml, item |-> NilItem, err |-> "",
          upstreamCalled |-> FALSE, old |-> NilItem, raw |-> "", status |-> 0,
          fetchedAt |-> 0]

\* the step just taken made caller c return (item, err) from Get(u); at names
\* the return statement, upstreamCalled tells whether conn.Get was called
Returned(c, at, u, item, err, called) ==
    [caller |-> c, at |-> at, url |-> u, item |-> item, err |-> err,
     upstreamCalled |-> called, old |-> NilItem, raw |-> "", status |-> 0,
     fetchedAt |-> 0]

\* Get returned the item it stored: old is the entry it had loaded (cm), raw
\* the response it had fetched (rawResponse), t the clock
\* retrieveBigFixData read for the item it returned
ReturnedStored(c, at, u, item, old, raw, t) ==
    [caller |-> c, at |-> at, url |-> u, item |-> item, err |-> "",
     upstreamCalled |-> TRUE, old |-> old, raw |-> raw, status |-> 0, fetchedAt |-> t]

\* cacheInstance after the first GetCache
FirstInstance == [ptr |-> 1, made |-> 1]

\* cacheMu unlocked
FreeMu == [holder |-> 0, fn |-> "", maxAgeSeconds |-> 0, maxCacheLifetime |-> 0]

\* handleURLsEndpoint before its first request
IdleHandler == [isCacheHit |-> FALSE]

\* PopulateCoreTypes was not called
IdlePop == [pc |-> "idle", err |-> ""]

IdleSweeper == [pc |-> "idle", now |-> 0, todo |-> {}, item |-> NilItem]

\* a Range that visits nothing
MapRange_Nothing(m) == {}

\* sync.Map.Range: the keys it visits
MapRange(m) == DOMAIN m

\* a store that keeps the value the key already has
MapStore_KeepsExisting(m, k, v) ==
    [x \in DOMAIN m \cup {k} |-> IF x \in DOMAIN m THEN m[x] ELSE v]

\* sync.Map.Store
MapStore(m, k, v) == [x \in DOMAIN m \cup {k} |-> IF x = k THEN v ELSE m[x]]

\* AddServer on the fresh cache GetCache(a, l) built, with pool size n and
\* TTL m, at time t0
InitAt(t0, ttls, lifetimes, shardTtls, sizes) ==
    /\ now = t0
    /\ upstream \in Bodies
    /\ \E a \in ttls, l \in lifetimes, m \in shardTtls, n \in sizes :
          /\ cache = GetCache(a, l)
          /\ ServerCache = [b \in {getBaseUrl(ServerUrl)} |->
                               NewServerCache(b, ServerMaxAge(cache, m))]
          /\ poolSize = n
          /\ pool = NewPool(n)
    /\ CacheMap = << >>
    /\ g = [c \in Callers |-> IdleG]
    /\ adder = [c \in Callers |-> IdleA]
    /\ pop = IdlePop
    /\ handler = IdleHandler
    /\ cacheInstance = FirstInstance
    /\ cacheMu = FreeMu
    /\ orphans = << >>
    /\ closer = "idle"
    /\ RegIdle
    /\ sweeper = IdleSweeper
    /\ ret = NoRet
    /\ extHist = << >>

InitWith(ttls, lifetimes, shardTtls, sizes) == InitAt(0, ttls, lifetimes, shardTtls, sizes)

(***************************************************************************)
(* Get, first part: shard lookup, entry load, hit / refresh decision.      *)
(***************************************************************************)
\* a lookup that finds a shard for every base URL
ShardExists_Always(baseURL) == TRUE

\* Get: cache.ServerCache.Load(baseURL), ok
ShardExists(baseURL) == baseURL \in DOMAIN ServerCache

\* the BigFixServerCache of ServerUrl, the server whose pool and entry map
\* the model follows
sc ==
    ServerCache[IF getBaseUrl(ServerUrl) \in DOMAIN ServerCache THEN getBaseUrl(ServerUrl)
                                                                ELSE getBaseUrl(UrlBare)]

\* sc of the Get that caller c runs: the shard object it loaded
ScOf(c) == IF g[c].gen = 0 THEN sc ELSE orphans[g[c].gen].sc

\* sc.cpool of the Get that caller c runs
PoolOf(c) == IF g[c].gen = 0 THEN pool ELSE orphans[g[c].gen].pool

\* the pool of caller c's shard becomes p
SetPool(c, p) ==
    IF g[c].gen = 0
    THEN pool' = p /\ UNCHANGED orphans
    ELSE orphans' = [orphans EXCEPT ![g[c].gen].pool = p] /\ UNCHANGED pool

\* Get up to its first return or its call of retrieveBigFixData, by a
\* goroutine that is about to call it
GetEnter(c, u) ==
    /\ IF ~ShardExists(getBaseUrl(u))
       THEN /\ ret' = Returned(c, "noshard", u, NilItem, "server cache does not exist", FALSE)
            /\ g' = [g EXCEPT ![c] = IdleG]
       ELSE IF u \notin DOMAIN CacheMap
       THEN /\ g' = [g EXCEPT ![c] = [IdleG EXCEPT !.pc = "acquire", !.url = u]]
            /\ ret' = NoRet
       ELSE IF NeedsRefresh(CacheMap[u], now)
       THEN /\ g' = [g EXCEPT ![c] = [IdleG EXCEPT !.pc = "acquire", !.url = u,
                                                   !.found = TRUE, !.cm = CacheMap[u]]]
            /\ ret' = NoRet
       ELSE /\ ret' = Returned(c, "hit", u, CacheMap[u], "", FALSE)
            /\ g' = [g EXCEPT ![c] = IdleG]
    /\ UNCHANGED <<now, upstream, cache, ServerCache, poolSize, pool, CacheMap, sweeper,
                   extHist, adder, pop, handler, cacheInstance, cacheMu, orphans, closer, regVars>>

\* Get called by a client goroutine
GetStart(c, u) ==
    /\ g[c].pc = "idle"
    /\ GetEnter(c, u)

(***************************************************************************)
(* Pool.Acquire: lock the mutex, fail if closed, else receive from the     *)
(* channel while still holding the mutex (deferred Unlock).                *)
(***************************************************************************)
\* an Acquire that does not look at the closed flag
AcquireRefused_Never(p) == FALSE

\* Acquire: if p.closed
AcquireRefused(p) == p.closed

AcquireLock(c) ==
    /\ g[c].pc = "acquire"
    /\ PoolOf(c).mutex = 0
    /\ IF PoolOf(c).nil
       THEN \* p.mutex.Lock() on a nil *Pool: nil pointer dereference, the
            \* goroutine panics out of Get
            /\ g' = [g EXCEPT ![c] = IdleG]
            /\ ret' = Returned(c, "panic", g[c].url, NilItem, "nil pointer dereference", FALSE)
            /\ UNCHANGED <<pool, orphans>>
       ELSE IF AcquireRefused(PoolOf(c))
       THEN \* Acquire returns the error, retrieveBigFixData and Get pass it on
            /\ g' = [g EXCEPT ![c] = IdleG]
            /\ ret' = Returned(c, "error", g[c].url, NilItem, "pool is closed", FALSE)
            /\ UNCHANGED <<pool, orphans>>
       ELSE /\ SetPool(c, [PoolOf(c) EXCEPT !.mutex = c])
            /\ g' = [g EXCEPT ![c].pc = "receive"]
            /\ ret' = NoRet
    /\ UNCHANGED <<now, upstream, cache, ServerCache, poolSize, CacheMap, sweeper, extHist, adder, pop, handler, cacheInstance, cacheMu, closer, regVars>>

\* <-p.connections: blocks while the channel is empty and open; a closed and
\* drained channel yields nil (0)
AcquireReceive(c) ==
    /\ g[c].pc = "receive"
    /\ PoolOf(c).mutex = c
    /\ PoolOf(c).connections # << >> \/ PoolOf(c).closed
    /\ IF PoolOf(c).connections # << >>
       THEN /\ g' = [g EXCEPT ![c].pc = "fetch", ![c].conn = Head(PoolOf(c).connections)]
            /\ SetPool(c, [PoolOf(c) EXCEPT !.connections = ChanRecv(PoolOf(c).connections),
                                            !.mutex = 0])
       ELSE /\ g' = [g EXCEPT ![c].pc = "fetch", ![c].conn = 0]
            /\ SetPool(c, [PoolOf(c) EXCEPT !.mutex = 0])
    /\ ret' = NoRet
    /\ UNCHANGED <<now, upstream, cache, ServerCache, poolSize, CacheMap, sweeper, extHist, adder, pop, handler, cacheInstance, cacheMu, closer, regVars>>

(***************************************************************************)
(* retrieveBigFixData between Acquire and Release: conn.Get, format        *)
(* detection, transformation, hash.  The item is built after Release.      *)
(***************************************************************************)
Fetch(c) ==
    /\ g[c].pc = "fetch"
    /\ \E transportOk \in BOOLEAN, marshalOk \in BOOLEAN, status \in Statuses :
          IF ~transportOk
          THEN g' = [g EXCEPT ![c].pc = "release", ![c].err = "transport"]
          ELSE LET raw == ConnGet(upstream, status).rawResponse
                   r   == retrieveBigFixData(g[c].url, raw, now, ScOf(c).MaxAge, marshalOk)
               IN  g' = [g EXCEPT ![c].pc = "release", ![c].raw = raw, ![c].status = status,
                                  ![c].err = r.err]
    /\ ret' = NoRet
    /\ UNCHANGED <<now, upstream, cache, ServerCache, poolSize, pool, CacheMap, sweeper, extHist, adder, pop, handler, cacheInstance, cacheMu, orphans, closer, regVars>>

(***************************************************************************)
(* Pool.Release: lock the mutex, drop the connection if the pool is        *)
(* closed, else send it to the channel.  An error of the fetch is then     *)
(* returned by retrieveBigFixData and by Get; without error                *)
(* retrieveBigFixData goes on to build the CacheItem it returns (Stamp).   *)
(***************************************************************************)
\* a Release that does not look at the closed flag
ReleaseDrops_Never(p) == FALSE

\* Release: if p.closed
ReleaseDrops(p) == p.closed

\* a Release that forgets to send the connection back
Released_Dropped(p, conn) == p

\* Release: the pool after the call
Released(p, conn) ==
    IF ReleaseDrops(p) THEN p ELSE [p EXCEPT !.connections = ChanSend(p.connections, conn)]

Release(c) ==
    /\ g[c].pc = "release"
    /\ PoolOf(c).mutex = 0
    /\ SetPool(c, Released(PoolOf(c), g[c].conn))
    /\ IF g[c].err # ""
       THEN /\ g' = [g EXCEPT ![c] = IdleG]
            /\ ret' = [Returned(c, "error", g[c].url, NilItem, g[c].err, TRUE)
                           EXCEPT !.status = g[c].status]
       ELSE /\ g' = [g EXCEPT ![c].pc = "stamp", ![c].conn = 0]
            /\ ret' = NoRet
    /\ UNCHANGED <<now, upstream, cache, ServerCache, poolSize, CacheMap, sweeper, extHist, adder, pop, handler, cacheInstance, cacheMu, closer, regVars>>

\* retrieveBigFixData after Pool.Release has returned: the CacheItem literal
\* with Timestamp time.Now().Unix() and the MaxAge of the shard
Stamp(c) ==
    /\ g[c].pc = "stamp"
    /\ g' = [g EXCEPT ![c].pc = "store", ![c].fetchedAt = now,
                      ![c].newItem = retrieveBigFixData(g[c].url, g[c].raw, now,
                                                        ScOf(c).MaxAge, TRUE).item]
    /\ ret' = NoRet
    /\ UNCHANGED <<now, upstream, cache, ServerCache, poolSize, pool, CacheMap, sweeper, extHist, adder, pop, handler, cacheInstance, cacheMu, orphans, closer, regVars>>

(***************************************************************************)
(* Get, last part: store the fetched item (cold miss) or the updated item  *)
(* (refresh) and return it.                                                *)
(***************************************************************************)
\* history: the MaxAge values replaced by the latest run of extensions
ExtHistAfter(h, found, cm, newItem) ==
    IF found /\ HashMatches(cm, newItem)
    THEN IF Len(h) = 2 THEN <<h[2], cm.MaxAge>> ELSE Append(h, cm.MaxAge)
    ELSE << >>

Store(c) ==
    /\ g[c].pc = "store"
    /\ LET item == IF g[c].found
                   THEN UpdatedItem(g[c].cm, g[c].newItem, now, cache.MaxCacheLifetime)
                   ELSE g[c].newItem
           h    == IF g[c].url \in DOMAIN extHist THEN extHist[g[c].url] ELSE << >>
       IN  /\ ret' = [ReturnedStored(c, IF g[c].found THEN "refresh" ELSE "cold",
                                     g[c].url, item, g[c].cm, g[c].raw, g[c].fetchedAt)
                           EXCEPT !.status = g[c].status]
           /\ IF g[c].gen = 0
              THEN /\ CacheMap' = MapStore(CacheMap, g[c].url, item)
                   /\ extHist' = MapStore(extHist, g[c].url,
                                          ExtHistAfter(h, g[c].found, g[c].cm, g[c].newItem))
              ELSE \* the entry map of a replaced shard: no Load reads it again
                   UNCHANGED <<CacheMap, extHist>>
    /\ g' = [g EXCEPT ![c] = IdleG]
    /\ UNCHANGED <<now, upstream, cache, ServerCache, poolSize, pool, sweeper, adder, pop, handler, cacheInstance, cacheMu, orphans, closer, regVars>>

(***************************************************************************)
(* Pool.Close.                                                             *)
(***************************************************************************)
\* a goroutine calls Close: it is at p.mutex.Lock()
CloseCall ==
    /\ closer = "idle"
    /\ closer' = "lock"
    /\ ret' = NoRet
    /\ UNCHANGED <<now, upstream, cache, ServerCache, poolSize, pool, CacheMap, g, sweeper, extHist, adder, pop, handler, cacheInstance, cacheMu, orphans, regVars>>

\* Close from the return of its Lock: return if closed; else set closed,
\* close the channel and drain it; the deferred Unlock
Close ==
    /\ closer = "lock"
    /\ pool.mutex = 0
    /\ pool' = IF pool.closed THEN pool
               ELSE [pool EXCEPT !.closed = TRUE, !.connections = << >>]
    /\ closer' = "idle"
    /\ ret' = NoRet
    /\ UNCHANGED <<now, upstream, cache, ServerCache, poolSize, CacheMap, g, sweeper, extHist, adder, pop, handler, cacheInstance, cacheMu, orphans, regVars>>

(***************************************************************************)
(* sweepExpiredItems, run by the ticker goroutine: read the clock, range   *)
(* over the entry map; each visit loads an item and, if it is expired,     *)
(* stores the cleared item.                                                *)
(***************************************************************************)
SweepBegin ==
    /\ sweeper.pc = "idle"
    /\ sweeper' = [pc |-> "range", now |-> now, todo |-> MapRange(CacheMap), item |-> NilItem]
    /\ ret' = NoRet
    /\ UNCHANGED <<now, upstream, cache, ServerCache, poolSize, pool, CacheMap, g, extHist, adder, pop, handler, cacheInstance, cacheMu, orphans, closer, regVars>>

SweepVisit(u) ==
    /\ sweeper.pc = "range"
    /\ u \in sweeper.todo
    /\ IF IsExpired(CacheMap[u], sweeper.now)
       THEN sweeper' = [sweeper EXCEPT !.pc = "store", !.item = CacheMap[u]]
       ELSE sweeper' = [sweeper EXCEPT !.todo = @ \ {u}]
    /\ ret' = NoRet
    /\ UNCHANGED <<now, upstream, cache, ServerCache, poolSize, pool, CacheMap, g, extHist, adder, pop, handler, cacheInstance, cacheMu, orphans, closer, regVars>>

SweepStore(u) ==
    /\ sweeper.pc = "store"
    /\ u \in sweeper.todo
    /\ CacheMap' = MapStore(CacheMap, u, ClearedItem(sweeper.item))
    /\ sweeper' = [sweeper EXCEPT !.pc = "range", !.todo = @ \ {u}, !.item = NilItem]
    /\ ret' = NoRet
    /\ UNCHANGED <<now, upstream, cache, ServerCache, poolSize, pool, g, extHist, adder, pop, handler, cacheInstance, cacheMu, orphans, closer, regVars>>

SweepEnd ==
    /\ sweeper.pc = "range"
    /\ sweeper.todo = {}
    /\ sweeper' = IdleSweeper
    /\ ret' = NoRet
    /\ UNCHANGED <<now, upstream, cache, ServerCache, poolSize, pool, CacheMap, g, extHist, adder, pop, handler, cacheInstance, cacheMu, orphans, closer, regVars>>

(***************************************************************************)
(* Environment: the clock advances, the upstream content changes.          *)
(***************************************************************************)
Tick ==
    /\ now < MaxTime
    /\ now' = now + 1
    /\ ret' = NoRet
    /\ UNCHANGED <<upstream, cache, ServerCache, poolSize, pool, CacheMap, g, sweeper, extHist, adder, pop, handler, cacheInstance, cacheMu, orphans, closer, regVars>>

UpstreamChange(b) ==
    /\ b # upstream
    /\ upstream' = b
    /\ ret' = NoRet
    /\ UNCHANGED <<now, cache, ServerCache, poolSize, pool, CacheMap, g, sweeper, extHist, adder, pop, handler, cacheInstance, cacheMu, orphans, closer, regVars>>

(***************************************************************************)
(* AddServer: load the shard map under the base URL; if nothing is found,  *)
(* build the pool and the shard and store it, else return the error.       *)
(***************************************************************************)
\* an AddServer that never finds the shard
AddServerFound_Never(baseURL) == FALSE

\* AddServer: cache.ServerCache.Load(baseURL), err (true when found)
AddServerFound(baseURL) == baseURL \in DOMAIN ServerCache

AddLoad(c, url, size, maxAge) ==
    /\ adder[c].pc = "idle"
    /\ IF AddServerFound(getBaseUrl(url))
       THEN /\ ret' = Returned(c, "duplicate", url, NilItem, "server cache already exists", FALSE)
            /\ UNCHANGED adder
       ELSE /\ adder' = [adder EXCEPT ![c] = [pc |-> "store", url |-> url,
                                               poolSize |-> size, maxAge |-> maxAge]]
            /\ ret' = NoRet
    /\ UNCHANGED <<now, upstream, cache, ServerCache, poolSize, pool, CacheMap, g, sweeper,
                   extHist, pop, handler, cacheInstance, cacheMu, orphans, closer, regVars>>

\* the goroutines inside a Get that loaded the shard in cache.ServerCache
UsingShard ==
    {d \in DOMAIN g : /\ g[d].gen = 0
                      /\ g[d].pc \in {"acquire", "receive", "fetch", "release", "stamp",
                                       "store"}}

\* NewPool, scInstance, cache.ServerCache.Store(baseURL, scInstance), return
AddStore(c) ==
    /\ adder[c].pc = "store"
    /\ LET baseURL == getBaseUrl(adder[c].url)
       IN  /\ ServerCache' = MapStore(ServerCache, baseURL,
                                      NewServerCache(baseURL, ServerMaxAge(cache, adder[c].maxAge)))
           /\ IF baseURL = getBaseUrl(ServerUrl)
              THEN \* the new shard comes with its own pool and an empty entry map;
                   \* the Gets and the sweep that loaded the shard it replaces go
                   \* on with that one
                   /\ pool' = NewPool(adder[c].poolSize)
                   /\ poolSize' = adder[c].poolSize
                   /\ CacheMap' = << >>
                   /\ extHist' = << >>
                   /\ IF UsingShard = {}
                      THEN UNCHANGED <<orphans, g>>
                      ELSE /\ orphans' = Append(orphans, [sc |-> sc, pool |-> pool])
                           /\ g' = [d \in DOMAIN g |->
                                       IF d \in UsingShard
                                       THEN [g[d] EXCEPT !.gen = Len(orphans) + 1]
                                       ELSE g[d]]
                   /\ sweeper' = IF sweeper.pc = "idle" THEN sweeper
                                 ELSE [sweeper EXCEPT !.pc = "range", !.todo = {},
                                                      !.item = NilItem]
              ELSE UNCHANGED <<pool, poolSize, CacheMap, extHist, orphans, g, sweeper>>
    /\ ret' = Returned(c, "added", adder[c].url, NilItem, "", FALSE)
    /\ adder' = [adder EXCEPT ![c] = IdleA]
    /\ UNCHANGED <<now, upstream, cache, pop, handler, cacheInstance, cacheMu, closer, regVars>>

(***************************************************************************)
(* Spec: one client goroutine calls Get again and again while the clock    *)
(* runs, the upstream content changes and the garbage collector sweeps.    *)
(***************************************************************************)
\* the client goroutine
GcClient == 1

\* the URLs the client asks for: one entry of the registered server, and a
\* server that is not registered
GcUrls == {UrlXml, UrlOther}

Init == InitWith(1..MaxTTL, 1..MaxLifetime, 0..MaxTTL, {1})

Next ==
    \/ \E u \in GcUrls : GetStart(GcClient, u)
    \/ AcquireLock(GcClient)
    \/ AcquireReceive(GcClient)
    \/ Fetch(GcClient)
    \/ Release(GcClient)
    \/ Stamp(GcClient)
    \/ Store(GcClient)
    \/ SweepBegin
    \/ \E u \in RequestUrls : SweepVisit(u)
    \/ \E u \in RequestUrls : SweepStore(u)
    \/ SweepEnd
    \/ Tick
    \/ \E b \in Bodies : UpstreamChange(b)

Spec == Init /\ [][Next]_vars

(***************************************************************************)
(* PoolSpec: the callers run Get concurrently within one second and the    *)
(* pool may be closed at any moment.  PoolFairSpec adds the scheduler's    *)
(* fairness: a goroutine that can take a step eventually takes it.         *)
(***************************************************************************)
PoolInit == InitWith({1}, {1}, {0}, 1..MaxPoolSize)

GStep(c) ==
    AcquireLock(c) \/ AcquireReceive(c) \/ Fetch(c) \/ Release(c) \/ Stamp(c) \/ Store(c)

PoolNext ==
    \/ \E c \in Callers, u \in RequestUrls : GetStart(c, u)
    \/ \E c \in Callers : AcquireLock(c)
    \/ \E c \in Callers : AcquireReceive(c)
    \/ \E c \in Callers : Fetch(c)
    \/ \E c \in Callers : Release(c)
    \/ \E c \in Callers : Stamp(c)
    \/ \E c \in Callers : Store(c)
    \/ CloseCall
    \/ Close

PoolSpec == PoolInit /\ [][PoolNext]_vars

PoolFairSpec == PoolSpec /\ WF_vars(Close) /\ \A c \in Callers : WF_vars(GStep(c))

(***************************************************************************)
(* GcSpec: one client calls Get while the garbage collector sweeps         *)
(* concurrently, the clock runs, the upstream content changes and the pool *)
(* may be closed.                                                          *)
(* SweepSpec: the same client and garbage collector against an upstream    *)
(* whose content stays the same and a pool that stays open.  SweepFairSpec *)
(* adds the fairness of the sweeper goroutine: the ticker keeps firing and *)
(* a sweep that was started runs to its end.                               *)
(***************************************************************************)
(***************************************************************************)
(* AddSpec: on a cache built with or without a TTL of its own, goroutines  *)
(* call AddServer and Get concurrently.                                    *)
(***************************************************************************)
\* the requests the clients make: of the registered server and of one that
\* is never registered
AddRequests == {UrlXml, UrlOther}

\* the TTL arguments of GetCache and AddServer: none (0) or MaxTTL
AddTtls == {0, MaxTTL}

AddInit ==
    /\ now = 0
    /\ upstream = BodyBESAPI
    /\ \E a \in AddTtls : cache = GetCache(a, MaxLifetime)
    /\ ServerCache = << >>
    /\ poolSize = 0
    /\ pool = NoPool
    /\ CacheMap = << >>
    /\ g = [c \in Callers |-> IdleG]
    /\ adder = [c \in Callers |-> IdleA]
    /\ pop = IdlePop
    /\ handler = IdleHandler
    /\ cacheInstance = FirstInstance
    /\ cacheMu = FreeMu
    /\ orphans = << >>
    /\ closer = "idle"
    /\ RegIdle
    /\ sweeper = IdleSweeper
    /\ ret = NoRet
    /\ extHist = << >>

\* the goroutines that call AddServer and the clients that call Get
AddCallers == {1, 2}
AddClients == {1, 2}

AddNext ==
    \/ \E c \in AddCallers, url \in ServerUrls, maxAge \in AddTtls :
          AddLoad(c, url, MaxPoolSize, maxAge)
    \/ \E c \in AddCallers : AddStore(c)
    \/ \E c \in AddClients, u \in AddRequests : GetStart(c, u)
    \/ \E c \in AddClients : AcquireLock(c)
    \/ \E c \in AddClients : AcquireReceive(c)
    \/ \E c \in AddClients : Fetch(c)
    \/ \E c \in AddClients : Release(c)
    \/ \E c \in AddClients : Stamp(c)
    \/ \E c \in AddClients : Store(c)

AddSpec == AddInit /\ [][AddNext]_vars

\* AddSizeSpec: as AddSpec, with AddServer called with pool size 0 as well
AddSizeNext ==
    \/ \E c \in AddCallers, url \in ServerUrls, size \in {0, MaxPoolSize} :
          AddLoad(c, url, size, 0)
    \/ \E c \in AddCallers : AddStore(c)
    \/ \E c \in AddClients, u \in AddRequests : GetStart(c, u)
    \/ \E c \in AddClients : AcquireLock(c)
    \/ \E c \in AddClients : AcquireReceive(c)
    \/ \E c \in AddClients : Fetch(c)
    \/ \E c \in AddClients : Release(c)
    \/ \E c \in AddClients : Stamp(c)
    \/ \E c \in AddClients : Store(c)

AddSizeSpec == AddInit /\ [][AddSizeNext]_vars

GcInit == InitWith({1}, {MaxLifetime}, {0}, {1})

\* the URLs the client of SweepSpec asks for: two entries of the server
SweepUrls == {UrlXml, UrlJson}

\* SweepSpec and FormatSpec follow the last three and two seconds of the clock
SweepInit == InitAt(MaxTime - 3, {1}, {MaxLifetime}, {0}, {1})

FormatInit == InitAt(MaxTime - 2, {1}, {MaxLifetime}, {0}, {1})

SweepStep ==
    \/ SweepBegin
    \/ \E u \in RequestUrls : SweepVisit(u)
    \/ \E u \in RequestUrls : SweepStore(u)
    \/ SweepEnd

GcNext ==
    \/ \E u \in GcUrls : GetStart(GcClient, u)
    \/ AcquireLock(GcClient)
    \/ AcquireReceive(GcClient)
    \/ Fetch(GcClient)
    \/ Release(GcClient)
    \/ Stamp(GcClient)
    \/ Store(GcClient)
    \/ CloseCall
    \/ Close
    \/ SweepBegin
    \/ \E u \in RequestUrls : SweepVisit(u)
    \/ \E u \in RequestUrls : SweepStore(u)
    \/ SweepEnd
    \/ Tick
    \/ \E b \in Bodies : UpstreamChange(b)

GcSpec == GcInit /\ [][GcNext]_vars

SweepNext ==
    \/ \E u \in SweepUrls : GetStart(GcClient, u)
    \/ AcquireLock(GcClient)
    \/ AcquireReceive(GcClient)
    \/ Fetch(GcClient)
    \/ Release(GcClient)
    \/ Stamp(GcClient)
    \/ Store(GcClient)
    \/ SweepBegin
    \/ \E u \in RequestUrls : SweepVisit(u)
    \/ \E u \in RequestUrls : SweepStore(u)
    \/ SweepEnd
    \/ Tick

SweepSpec == SweepInit /\ [][SweepNext]_vars

SweepFairSpec == SweepSpec /\ WF_vars(SweepStep)

(***************************************************************************)
(* PopulateCoreTypes: Get of the three index endpoints in turn, and after  *)
(* each one a goroutine running silentGet per resource of its result.      *)
(***************************************************************************)
\* the URLs of the child fetches; child goroutine i runs silentGet(ChildUrls[i])
ChildUrls ==
    << UrlAction1, UrlPlus(UrlAction1, "/status"), UrlComputer1,
       UrlSite1, UrlPlus(UrlSite1, "/content"),
       UrlExternal1, UrlPlus(UrlExternal1, "/content"),
       UrlOperator1, UrlPlus(UrlOperator1, "/content"),
       UrlMaster, UrlPlus(UrlMaster, "/content") >>

Children == 1..Len(ChildUrls)

\* the goroutine main starts with go cache.PopulateCoreTypes(...)
PopParent == Len(ChildUrls) + 1

PopProcs == Children \cup {PopParent}

\* serverUrl + "/api/actions", "/api/computers", "/api/sites"
IndexUrl(step) == UrlPlus(ServerUrl, "/api/" \o step)

\* the index endpoint PopulateCoreTypes turns to after step
NextIndex(step) ==
    CASE step = "actions"   -> "computers"
      [] step = "computers" -> "sites"
      [] step = "sites"     -> "done"

\* json.Unmarshal(result.Json, &besapi): its error and the Resource
\* attributes of the elements of the document; ActionSite is a pointer,
\* the empty set when it is nil
JsonUnmarshal(json) ==
    LET none == [err |-> "", Action |-> {}, Computer |-> {}, CustomSite |-> {},
                 ExternalSite |-> {}, OperatorSite |-> {}, ActionSite |-> {}]
    IN  CASE json = "" -> [none EXCEPT !.err = "unexpected end of JSON input"]
          [] json = JsonMarshal("BESAPI", BodyIndexAC) ->
                 [none EXCEPT !.Action = {UrlAction1}, !.Computer = {UrlComputer1}]
          [] json = JsonMarshal("BESAPI", BodyIndexS) ->
                 [none EXCEPT !.CustomSite = {UrlSite1}]
          [] json = JsonMarshal("BESAPI", BodyIndexEA) ->
                 [none EXCEPT !.ExternalSite = {UrlExternal1}, !.ActionSite = {UrlMaster}]
          [] json = JsonMarshal("BESAPI", BodyIndexO) ->
                 [none EXCEPT !.OperatorSite = {UrlOperator1}]
          [] OTHER -> none

\* the site loops and the ActionSite test of PopulateCoreTypes: the sites
\* whose Resource is fetched with and without "/content"
Sites(besapi) ==
    besapi.CustomSite \cup besapi.ExternalSite \cup besapi.OperatorSite
        \cup besapi.ActionSite

\* loops that fetch the resources themselves only
Resources_Plain(step, besapi) ==
    CASE step = "actions"   -> besapi.Action
      [] step = "computers" -> besapi.Computer
      [] step = "sites"     -> Sites(besapi)

\* the loops of PopulateCoreTypes: the URLs given to go cache.silentGet
Resources(step, besapi) ==
    CASE step = "actions"   ->
             besapi.Action \cup {UrlPlus(r, "/status") : r \in besapi.Action}
      [] step = "computers" -> besapi.Computer
      [] step = "sites"     ->
             Sites(besapi) \cup {UrlPlus(r, "/content") : r \in Sites(besapi)}

\* a populator that logs the error of an index endpoint and goes on
PopulateStep_Swallows(step, r) ==
    IF r.err # "" \/ JsonUnmarshal(r.item.Json).err # ""
    THEN [pc |-> NextIndex(step), err |-> "", spawn |-> {}]
    ELSE [pc |-> NextIndex(step), err |-> "",
          spawn |-> Resources(step, JsonUnmarshal(r.item.Json))]

\* PopulateCoreTypes after cache.Get of the index endpoint step returned r:
\* where it goes on, the error it returns and the URLs it starts children for
PopulateStep(step, r) ==
    IF r.err # ""
    THEN [pc |-> "done", err |-> r.err, spawn |-> {}]
    ELSE LET besapi == JsonUnmarshal(r.item.Json)
         IN  IF besapi.err # ""
             THEN [pc |-> "done", err |-> besapi.err, spawn |-> {}]
             ELSE [pc |-> NextIndex(step), err |-> "", spawn |-> Resources(step, besapi)]

\* no result of the parent's Get is waiting for the parent
PopReady == ret.caller # PopParent

\* result, err := cache.Get(serverUrl + "/api/...")
PopGet ==
    /\ pop.pc \in {"actions", "computers", "sites"}
    /\ PopReady
    /\ g[PopParent].pc = "idle"
    /\ GetEnter(PopParent, IndexUrl(pop.pc))

\* the statements after cache.Get: return err, or json.Unmarshal and the
\* go statements of the loops
PopContinue ==
    /\ ret.caller = PopParent
    /\ LET s == PopulateStep(pop.pc, ret)
       IN  /\ pop' = [pc |-> s.pc, err |-> s.err]
           /\ g' = [c \in DOMAIN g |->
                       IF c \in Children /\ ChildUrls[c] \in s.spawn
                       THEN [IdleG EXCEPT !.pc = "spawned", !.url = ChildUrls[c]]
                       ELSE g[c]]
    /\ ret' = NoRet
    /\ UNCHANGED <<now, upstream, cache, ServerCache, poolSize, pool, CacheMap, adder,
                   sweeper, extHist, handler, cacheInstance, cacheMu, orphans, closer, regVars>>

\* silentGet: cache.Get(url), its error logged and dropped
silentGet(c) ==
    /\ PopReady
    /\ g[c].pc = "spawned"
    /\ GetEnter(c, g[c].url)

PopAcquireLock(c)    == PopReady /\ AcquireLock(c)
PopAcquireReceive(c) == PopReady /\ AcquireReceive(c)
PopFetch(c)          == PopReady /\ Fetch(c)
PopRelease(c)        == PopReady /\ Release(c)
PopStamp(c)          == PopReady /\ Stamp(c)
PopStore(c)          == PopReady /\ Store(c)

\* a fetch the upstream answers with 200 and a document that transforms
HealthyFetch(c) ==
    /\ PopFetch(c)
    /\ g'[c].err = ""
    /\ g'[c].status = StatusOK

\* main: GetCache, AddServer, go cache.PopulateCoreTypes(server.URL, ...)
PopInitWith(bodies) ==
    /\ now = 0
    /\ upstream \in bodies
    /\ cache = GetCache(0, MaxLifetime)
    /\ ServerCache = [b \in {getBaseUrl(ServerUrl)} |->
                         NewServerCache(b, ServerMaxAge(cache, 0))]
    /\ poolSize \in 1..MaxPoolSize
    /\ pool = NewPool(poolSize)
    /\ CacheMap = << >>
    /\ g = [c \in PopProcs |-> IdleG]
    /\ adder = [c \in Callers |-> IdleA]
    /\ sweeper = IdleSweeper
    /\ ret = NoRet
    /\ extHist = << >>
    /\ pop = [pc |-> "actions", err |-> ""]
    /\ handler = IdleHandler
    /\ cacheInstance = FirstInstance
    /\ cacheMu = FreeMu
    /\ orphans = << >>
    /\ closer = "idle"
    /\ RegIdle

PopInit == PopInitWith(Bodies \cup IndexBodies)

\* the steps of goroutine c inside Get
PopGStep(c) ==
    \/ PopAcquireLock(c)
    \/ PopAcquireReceive(c)
    \/ PopFetch(c)
    \/ PopRelease(c)
    \/ PopStamp(c)
    \/ PopStore(c)

PopNext ==
    \/ PopGet
    \/ PopContinue
    \/ \E c \in Children : silentGet(c)
    \/ \E c \in PopProcs : PopAcquireLock(c)
    \/ \E c \in PopProcs : PopAcquireReceive(c)
    \/ \E c \in PopProcs : PopFetch(c)
    \/ \E c \in PopProcs : PopRelease(c)
    \/ \E c \in PopProcs : PopStamp(c)
    \/ \E c \in PopProcs : PopStore(c)

PopSpec == PopInit /\ [][PopNext]_vars

\* every goroutine that can take a step eventually takes one
PopFairSpec ==
    /\ PopSpec
    /\ WF_vars(PopGet \/ PopContinue)
    /\ \A c \in PopProcs : WF_vars(PopGStep(c))
    /\ \A c \in Children : WF_vars(silentGet(c))

PopHealthyInit == PopInitWith(IndexBodies)

PopHealthyNext ==
    \/ PopGet
    \/ PopContinue
    \/ \E c \in Children : silentGet(c)
    \/ \E c \in PopProcs : PopAcquireLock(c)
    \/ \E c \in PopProcs : PopAcquireReceive(c)
    \/ \E c \in PopProcs : HealthyFetch(c)
    \/ \E c \in PopProcs : PopRelease(c)
    \/ \E c \in PopProcs : PopStamp(c)
    \/ \E c \in PopProcs : PopStore(c)

\* the populator against an upstream that answers every request
PopHealthySpec == PopHealthyInit /\ [][PopHealthyNext]_vars

\* PopulateCoreTypes has returned and no goroutine it started is left
PopTerminated ==
    /\ pop.pc = "done"
    /\ ret.caller # PopParent
    /\ \A c \in PopProcs : g[c].pc = "idle"

(***************************************************************************)
(* handleURLsEndpoint: the pre-check that computes isCacheHit, then        *)
(* cache.Get(url); the response carries isCacheHit and the item of Get.    *)
(***************************************************************************)
\* the goroutine of the /urls request and a client that calls Get beside it
UrlsClient  == 1
OtherClient == 2

\* the request for the server registered without a port
UrlBareXml == UrlPlus(UrlBare, "/api/computers")

UrlsRequests == {UrlXml, UrlBareXml}

\* handleURLsEndpoint: baseURL := parsedURL.Scheme + "://" + parsedURL.Host
HandlerBaseUrl(u) == u.scheme \o "://" \o u.host

\* handleURLsEndpoint: isCacheHit, from the shard loaded under baseURL and
\* the entry loaded under url
PreCheck(u, requestTime) ==
    IF HandlerBaseUrl(u) \in DOMAIN ServerCache /\ u \in DOMAIN CacheMap
    THEN LET cm == CacheMap[u]
             isEmpty   == cm.Json = ""
             isExpired == requestTime - cm.Timestamp > cm.MaxAge
         IN  ~isEmpty /\ ~isExpired
    ELSE FALSE

\* handleURLsEndpoint up to its call of cache.Get
UrlsPreCheck(u) ==
    /\ g[UrlsClient].pc = "idle"
    /\ handler' = [isCacheHit |-> PreCheck(u, now)]
    /\ g' = [g EXCEPT ![UrlsClient] = [IdleG EXCEPT !.pc = "called", !.url = u]]
    /\ ret' = NoRet
    /\ UNCHANGED <<now, upstream, cache, ServerCache, poolSize, pool, CacheMap, adder,
                   sweeper, extHist, pop, cacheInstance, cacheMu, orphans, closer, regVars>>

\* cacheItem, err := cache.Get(url)
UrlsGet ==
    /\ g[UrlsClient].pc = "called"
    /\ GetEnter(UrlsClient, g[UrlsClient].url)

\* c.JSON in the state in which the handler's Get has returned: 200 with
\* iscachehit, or 404
UrlsResponse ==
    IF ret.err = ""
    THEN [code |-> 200, iscachehit |-> handler.isCacheHit, timestamp |-> ret.item.Timestamp,
          maxage |-> ret.item.MaxAge, contenthash |-> ret.item.ContentHash]
    ELSE [code |-> 404, iscachehit |-> FALSE, timestamp |-> 0, maxage |-> 0,
          contenthash |-> ""]

\* main: AddServer for one configured server, with or without a port
UrlsInit ==
    /\ now = 0
    /\ upstream = BodyBES
    /\ cache = GetCache(1, MaxLifetime)
    /\ \E s \in ServerUrls :
          ServerCache = [b \in {getBaseUrl(s)} |-> NewServerCache(b, ServerMaxAge(cache, 0))]
    /\ poolSize = MaxPoolSize
    /\ pool = NewPool(poolSize)
    /\ CacheMap = << >>
    /\ g = [c \in Callers |-> IdleG]
    /\ adder = [c \in Callers |-> IdleA]
    /\ sweeper = IdleSweeper
    /\ ret = NoRet
    /\ extHist = << >>
    /\ pop = IdlePop
    /\ handler = IdleHandler
    /\ cacheInstance = FirstInstance
    /\ cacheMu = FreeMu
    /\ orphans = << >>
    /\ closer = "idle"
    /\ RegIdle

UrlsNext ==
    \/ \E u \in UrlsRequests : UrlsPreCheck(u)
    \/ UrlsGet
    \/ \E u \in UrlsRequests : GetStart(OtherClient, u)
    \/ \E c \in Callers : AcquireLock(c)
    \/ \E c \in Callers : AcquireReceive(c)
    \/ \E c \in Callers : Fetch(c)
    \/ \E c \in Callers : Release(c)
    \/ \E c \in Callers : Stamp(c)
    \/ \E c \in Callers : Store(c)
    \/ Tick

UrlsSpec == UrlsInit /\ [][UrlsNext]_vars

(***************************************************************************)
(* GetCache and ResetCache: both lock cacheMu, run and unlock on return.   *)
(***************************************************************************)
\* the fields of a BigFixCache that does not exist
NilCache == [MaxAge |-> 0, MaxCacheLifetime |-> 0]

\* a GetCache that builds a cache on every call
InstanceMissing_Always(inst) == TRUE

\* GetCache: cacheInstance == nil
InstanceMissing(inst) == inst.ptr = 0

\* cacheMu.Lock() of GetCache(maxAgeSeconds, maxCacheLifetime)
GetCacheLock(c, maxAgeSeconds, maxCacheLifetime) ==
    /\ cacheMu.holder = 0
    /\ InstanceMissing(cacheInstance) => cacheInstance.made < MaxInstances
    /\ cacheMu' = [holder |-> c, fn |-> "GetCache", maxAgeSeconds |-> maxAgeSeconds,
                   maxCacheLifetime |-> maxCacheLifetime]
    /\ ret' = NoRet
    /\ UNCHANGED <<now, upstream, cache, ServerCache, poolSize, pool, CacheMap, g, adder,
                   sweeper, extHist, pop, handler, cacheInstance, orphans, closer, regVars>>

\* GetCache from the defaults to its return with the deferred Unlock
GetCacheReturn(c) ==
    /\ cacheMu.holder = c
    /\ cacheMu.fn = "GetCache"
    /\ IF InstanceMissing(cacheInstance)
       THEN /\ cacheInstance' = [ptr |-> cacheInstance.made + 1, made |-> cacheInstance.made + 1]
            /\ cache' = GetCache(cacheMu.maxAgeSeconds, cacheMu.maxCacheLifetime)
            /\ ServerCache' = << >>
       ELSE UNCHANGED <<cacheInstance, cache, ServerCache>>
    /\ cacheMu' = FreeMu
    /\ ret' = NoRet
    /\ UNCHANGED <<now, upstream, poolSize, pool, CacheMap, g, adder, sweeper, extHist, pop,
                   handler, orphans, closer, regVars>>

\* cacheMu.Lock() of ResetCache
ResetCacheLock(c) ==
    /\ cacheMu.holder = 0
    /\ cacheMu' = [FreeMu EXCEPT !.holder = c, !.fn = "ResetCache"]
    /\ ret' = NoRet
    /\ UNCHANGED <<now, upstream, cache, ServerCache, poolSize, pool, CacheMap, g, adder,
                   sweeper, extHist, pop, handler, cacheInstance, orphans, closer, regVars>>

\* ResetCache: cacheInstance = nil, return with the deferred Unlock
ResetCacheReturn(c) ==
    /\ cacheMu.holder = c
    /\ cacheMu.fn = "ResetCache"
    /\ cacheInstance' = [cacheInstance EXCEPT !.ptr = 0]
    /\ cache' = NilCache
    /\ ServerCache' = << >>
    /\ cacheMu' = FreeMu
    /\ ret' = NoRet
    /\ UNCHANGED <<now, upstream, poolSize, pool, CacheMap, g, adder, sweeper, extHist, pop,
                   handler, orphans, closer, regVars>>

\* the process before its first GetCache
SingletonInit ==
    /\ now = 0
    /\ upstream = BodyBES
    /\ cache = NilCache
    /\ ServerCache = << >>
    /\ poolSize = 0
    /\ pool = NoPool
    /\ CacheMap = << >>
    /\ g = [c \in Callers |-> IdleG]
    /\ adder = [c \in Callers |-> IdleA]
    /\ sweeper = IdleSweeper
    /\ ret = NoRet
    /\ extHist = << >>
    /\ pop = IdlePop
    /\ handler = IdleHandler
    /\ cacheInstance = [ptr |-> 0, made |-> 0]
    /\ cacheMu = FreeMu
    /\ orphans = << >>
    /\ closer = "idle"
    /\ RegIdle

SingletonNext ==
    \/ \E c \in Callers, a \in 0..MaxTTL, l \in 0..MaxLifetime : GetCacheLock(c, a, l)
    \/ \E c \in Callers : GetCacheReturn(c)
    \/ \E c \in Callers : ResetCacheLock(c)
    \/ \E c \in Callers : ResetCacheReturn(c)

SingletonSpec == SingletonInit /\ [][SingletonNext]_vars

(***************************************************************************)
(* ConcSpec: the callers call Get for one URL at any time, also while      *)
(* another Get of it is in flight.                                         *)
(***************************************************************************)
\* the two callers
ConcCallers == {1, 2}

ConcInit == InitWith({1}, {MaxLifetime}, {0}, 1..MaxPoolSize)

ConcNext ==
    \/ \E c \in ConcCallers : GetStart(c, UrlXml)
    \/ \E c \in ConcCallers : AcquireLock(c)
    \/ \E c \in ConcCallers : AcquireReceive(c)
    \/ \E c \in ConcCallers : Fetch(c)
    \/ \E c \in ConcCallers : Release(c)
    \/ \E c \in ConcCallers : Stamp(c)
    \/ \E c \in ConcCallers : Store(c)
    \/ Tick

ConcSpec == ConcInit /\ [][ConcNext]_vars

(***************************************************************************)
(* FormatSpec: one client fetches and refreshes requests of every kind the *)
(* format detection distinguishes.                                         *)
(***************************************************************************)
FormatNext ==
    \/ \E u \in FormatUrls : GetStart(GcClient, u)
    \/ AcquireLock(GcClient)
    \/ AcquireReceive(GcClient)
    \/ Fetch(GcClient)
    \/ Release(GcClient)
    \/ Stamp(GcClient)
    \/ Store(GcClient)
    \/ Tick
    \/ UpstreamChange(BodyBES)

FormatSpec == FormatInit /\ [][FormatNext]_vars

TypeOK ==
    /\ now \in 0..MaxTime
    /\ upstream \in Bodies
    /\ \A c \in Callers : g[c].pc \in {"idle", "acquire", "receive", "fetch", "release",
                                       "stamp", "store"}


(***************************************************************************)
(* Connection pool: C1, C2, C3 (PoolSpec, PoolFairSpec).                   *)
(***************************************************************************)
\* the callers that are inside retrieveBigFixData
InFetch == {c \in Callers : g[c].pc \in {"acquire", "receive", "fetch", "release", "stamp"}}

\* the callers that hold a connection
Holders == {c \in Callers : g[c].conn # 0}

SeqRange(q) == {q[i] : i \in 1..Len(q)}

\* C1: on an open pool every call of Acquire eventually returns, also when
\* there are more callers than connections: a caller that waits in Acquire
\* on an empty pool is unblocked by a later Release.
C1_AcquireEventuallyReturns ==
    \A c \in Callers :
        (g[c].pc \in {"acquire", "receive"}) ~> (g[c].pc \notin {"acquire", "receive"})

\* C2: whenever no fetch is in flight on the open pool, all poolSize
\* connections are available in the pool, each once; a caller that left
\* retrieveBigFixData holds no connection, on whatever path it left, and
\* neither does a caller that builds the item it returns after its Release.
C2_ConnectionConservation ==
    /\ (~pool.closed /\ InFetch = {}) =>
           /\ Len(pool.connections) = poolSize
           /\ SeqRange(pool.connections) = 1..poolSize
    /\ \A c \in Callers \ InFetch : g[c].conn = 0
    /\ \A c \in Callers : g[c].pc = "stamp" => g[c].conn = 0

\* C2 witness: a fetch that acquired a connection failed in xml.Unmarshal,
\* Get returned the error and the pool is at rest.
C2_Witness ==
    /\ ret.at = "error" /\ ret.err = "xml.Unmarshal" /\ ret.upstreamCalled
    /\ ~pool.closed /\ InFetch = {}
    /\ Len(pool.connections) = poolSize

\* C3: on an open pool no connection is held by two callers at once, none is
\* held and available at the same time, and held plus available connections
\* are poolSize.
C3_ExclusiveConnections ==
    ~pool.closed =>
        /\ \A c, d \in Holders : c # d => g[c].conn # g[d].conn
        /\ \A c \in Holders : g[c].conn \notin SeqRange(pool.connections)
        /\ Cardinality(Holders) + Len(pool.connections) = poolSize

\* C3 witness: two callers hold a connection each while the pool is open.
C3_Witness ==
    /\ ~pool.closed
    /\ \E c, d \in Callers : c # d /\ g[c].conn # 0 /\ g[d].conn # 0


(***************************************************************************)
(* Entries: C4 .. C10 (Spec).                                              *)
(***************************************************************************)
\* the body retrieveBigFixData derives from the raw response of request u
BodyOf(u, raw) ==
    IF IsJsonPassthrough(u) THEN raw
    ELSE JsonMarshal(IF ContainsBESAPI(raw) THEN "BESAPI" ELSE "BES", raw)

\* C4: every stored entry has MaxAge <= the cache's MaxCacheLifetime, for
\* every configuration GetCache and AddServer accept, whether the entry was
\* written by a cold miss, an extension or a reset.
C4_MaxAgeWithinLifetime ==
    \A u \in DOMAIN CacheMap : CacheMap[u].MaxAge <= cache.MaxCacheLifetime

\* C5: every stored entry has BaseMaxAge > 0 and MaxAge >= BaseMaxAge, for
\* every accepted configuration.
C5_MaxAgeAtLeastBase ==
    \A u \in DOMAIN CacheMap :
        /\ CacheMap[u].BaseMaxAge > 0
        /\ CacheMap[u].MaxAge >= CacheMap[u].BaseMaxAge

\* C6: when Get refreshes an entry whose stored hash is the MD5 of the bytes
\* the upstream answers with, the entry it publishes keeps that hash, has
\* Timestamp = now, the body of the fresh fetch, the old BaseMaxAge and
\* MaxAge = min(old MaxAge + BaseMaxAge, MaxCacheLifetime).
C6_ExtensionOnUnchanged ==
    (ret.at = "refresh" /\ MD5(ret.raw) = ret.old.ContentHash) =>
        /\ CacheMap[ret.url] = ret.item
        /\ ret.item.ContentHash = ret.old.ContentHash
        /\ ret.item.Timestamp = now
        /\ ret.item.Json = BodyOf(ret.url, ret.raw)
        /\ ret.item.BaseMaxAge = ret.old.BaseMaxAge
        /\ ret.item.MaxAge = Min(ret.old.MaxAge + ret.old.BaseMaxAge, cache.MaxCacheLifetime)

\* C6 witness: a tombstone was refreshed with unchanged content, its body is
\* back and the extension hit the ceiling.
C6_Witness ==
    /\ ret.at = "refresh" /\ MD5(ret.raw) = ret.old.ContentHash
    /\ ret.old.Json = "" /\ ret.item.Json # ""
    /\ ret.old.MaxAge + ret.old.BaseMaxAge > cache.MaxCacheLifetime
    /\ ret.item.MaxAge = cache.MaxCacheLifetime
    /\ ret.item.MaxAge > ret.old.MaxAge

\* C7: after two successive refreshes of a URL against unchanged content,
\* MaxAge has grown by BaseMaxAge twice, each time capped at
\* MaxCacheLifetime: not once and not three times.  extHist holds the MaxAge
\* values the last two extensions started from.  (Fails when the sweeper's
\* late Store puts back the entry the first refresh replaced: the second
\* refresh then extends from the old MaxAge.)
C7_TwoRefreshesTwoIncrements ==
    \A u \in DOMAIN CacheMap :
        LET h == extHist[u]
            e == CacheMap[u]
        IN  Len(h) = 2 =>
                /\ h[2] = Min(h[1] + e.BaseMaxAge, cache.MaxCacheLifetime)
                /\ e.MaxAge = Min(h[2] + e.BaseMaxAge, cache.MaxCacheLifetime)
                /\ h[1] + 2 * e.BaseMaxAge <= cache.MaxCacheLifetime =>
                       e.MaxAge = h[1] + 2 * e.BaseMaxAge

\* C8: when the bytes a refresh fetched differ from those behind the stored
\* hash, the entry it publishes has MaxAge = the BaseMaxAge of the entry it
\* replaces, the MD5 of the new bytes and the body derived from them.
C8_ResetOnChanged ==
    (ret.at = "refresh" /\ MD5(ret.raw) # ret.old.ContentHash) =>
        /\ CacheMap[ret.url] = ret.item
        /\ ret.item.MaxAge = ret.old.BaseMaxAge
        /\ ret.item.BaseMaxAge = ret.old.BaseMaxAge
        /\ ret.item.ContentHash = MD5(ret.raw)
        /\ ret.item.Json = BodyOf(ret.url, ret.raw)

\* C8 witness: an entry whose MaxAge had been extended was reset.
C8_Witness ==
    /\ ret.at = "refresh" /\ MD5(ret.raw) # ret.old.ContentHash
    /\ ret.old.MaxAge > ret.old.BaseMaxAge
    /\ ret.item.MaxAge = ret.old.BaseMaxAge

\* the step is the start of Get(u) by caller c
IsGetCall(c, u) ==
    /\ g[c].pc = "idle"
    /\ \/ g'[c].pc = "acquire" /\ g'[c].url = u
       \/ ret'.caller = c /\ ret'.url = u

\* C9: Get on a URL whose entry has a body and an age <= MaxAge returns that
\* entry, acquires no connection, calls no upstream and leaves the entry
\* map unchanged; an age equal to MaxAge is still a hit.
C9_HitLeavesEntry ==
    [][ \A c \in Callers, u \in RequestUrls :
          ( /\ IsGetCall(c, u)
            /\ u \in DOMAIN CacheMap
            /\ CacheMap[u].Json # ""
            /\ now - CacheMap[u].Timestamp <= CacheMap[u].MaxAge )
          => /\ ret'.at = "hit" /\ ret'.item = CacheMap[u] /\ ret'.err = ""
             /\ ~ret'.upstreamCalled
             /\ g'[c].pc = "idle"
             /\ pool' = pool
             /\ CacheMap' = CacheMap ]_vars

\* C9 witness: a hit on an entry whose age equals its MaxAge.
C9_Witness ==
    /\ ret.at = "hit"
    /\ ret.item.Json # ""
    /\ now - ret.item.Timestamp = ret.item.MaxAge
    /\ CacheMap[ret.url] = ret.item
    /\ Len(pool.connections) = poolSize

\* C10: a cold miss whose fetch succeeds with raw bytes X stores, under the
\* request URL, and returns an entry with the Timestamp retrieveBigFixData
\* read from the clock,
\* MaxAge = BaseMaxAge = the shard's TTL, ContentHash = MD5(X) and a
\* non-empty body.
C10_ColdMissEntry ==
    ret.at = "cold" =>
        /\ ret.url \in DOMAIN CacheMap
        /\ CacheMap[ret.url] = ret.item
        /\ ret.item.Timestamp = ret.fetchedAt
        /\ ret.item.MaxAge = sc.MaxAge
        /\ ret.item.BaseMaxAge = sc.MaxAge
        /\ ret.item.ContentHash = MD5(ret.raw)
        /\ ret.item.Json # ""


(***************************************************************************)
(* Garbage collector: C11, C12 (GcSpec), C13 (SweepFairSpec).              *)
(***************************************************************************)
\* C11: every write of the sweeper replaces an entry that is expired at
\* sweep time by the entry with an empty Json and the same Timestamp,
\* MaxAge, BaseMaxAge and ContentHash, and leaves every entry that is not
\* expired at sweep time as it is; the sweeper adds and removes no key, and
\* its other steps write nothing.
C11_SweepFrame ==
    [][ /\ (sweeper.pc = "store" /\ sweeper'.pc = "range") =>
              /\ DOMAIN CacheMap' = DOMAIN CacheMap
              /\ \A u \in DOMAIN CacheMap :
                    \/ CacheMap'[u] = CacheMap[u]
                    \/ /\ IsExpired(CacheMap[u], sweeper.now)
                       /\ CacheMap'[u] = [CacheMap[u] EXCEPT !.Json = ""]
        /\ (sweeper' # sweeper /\ ~(sweeper.pc = "store" /\ sweeper'.pc = "range")) =>
              CacheMap' = CacheMap ]_vars

\* the item the fetch behind the stored return r had produced
FreshItem(r) == retrieveBigFixData(r.url, r.raw, r.fetchedAt, sc.MaxAge, TRUE).item

\* C12: Get treats a tombstone like the expired entry with body it was made
\* from: an entry without body is never returned as a hit, an expired entry
\* needs a refresh with or without body, and the entry a refresh publishes
\* is the one it would publish had the body of the replaced entry been
\* cleared or been there: the comparison uses the stored ContentHash only.
C12_TombstoneAsExpired ==
    /\ ret.at = "hit" => ret.item.Json # ""
    /\ \A u \in DOMAIN CacheMap :
          IsExpired(CacheMap[u], now) =>
              /\ NeedsRefresh(CacheMap[u], now)
              /\ NeedsRefresh(ClearedItem(CacheMap[u]), now)
    /\ ret.at = "refresh" =>
          /\ UpdatedItem(ClearedItem(ret.old), FreshItem(ret), now,
                         cache.MaxCacheLifetime) = ret.item
          /\ \A b \in Bodies :
                UpdatedItem([ret.old EXCEPT !.Json = BodyOf(ret.url, b)], FreshItem(ret), now,
                            cache.MaxCacheLifetime) = ret.item

\* C12 witness: a tombstone the sweeper made of an extended entry was
\* refreshed against changed content and reset to its BaseMaxAge.
C12_Witness ==
    /\ ret.at = "refresh" /\ ret.url = UrlXml
    /\ ret.old.Json = "" /\ ret.old.ContentHash # MD5(ret.raw)
    /\ ret.old.MaxAge > ret.old.BaseMaxAge
    /\ ret.item.Json # "" /\ ret.item.MaxAge = ret.old.BaseMaxAge

\* C13: an entry that has expired is eventually a tombstone (Json = "")
\* unless a Get replaces it by an entry that is not expired: the sweeper,
\* once started, keeps sweeping, and the first sweep that reads the clock
\* after the expiry clears the entry.
C13_ExpiredEventuallyTombstoned ==
    \A u \in RequestUrls :
        (u \in DOMAIN CacheMap /\ CacheMap[u].Json # "" /\ IsExpired(CacheMap[u], now))
        ~> (u \in DOMAIN CacheMap
              /\ (CacheMap[u].Json = "" \/ ~IsExpired(CacheMap[u], now)))

\* C13 witness: the sweeper, running next to the client, has cleared an
\* expired entry that no Get is refreshing.
C13_Witness ==
    /\ sweeper.pc = "range" /\ sweeper.todo = {}
    /\ g[GcClient].pc = "idle"
    /\ \E u \in DOMAIN CacheMap :
          /\ CacheMap[u].Json = "" /\ IsExpired(CacheMap[u], sweeper.now)
          /\ CacheMap[u].ContentHash # MD5(BodyEmpty)


(***************************************************************************)
(* Failed fetches: C14 (GcSpec), C15 (Spec).                               *)
(***************************************************************************)
\* C14: a Get whose fetch fails (pool closed, transport error, xml.Unmarshal
\* error, json.Marshal error) returns that error and is over, without a
\* second fetch; the step that returns an error leaves the entry map as it
\* was, so a cold miss has created no entry and a failed refresh has left
\* the expired entry or tombstone in place; an entry is stored only for a
\* response that was passed through or parsed.
C14_FailedFetchLeavesEntries ==
    [][ /\ \A c \in Callers :
              /\ (g[c].pc = "acquire" /\ pool.closed /\ g'[c] # g[c]) =>
                     /\ ret' = Returned(c, "error", g[c].url, NilItem, "pool is closed", FALSE)
                     /\ g'[c] = IdleG
              /\ (g[c].pc = "release" /\ g[c].err # "" /\ g'[c] # g[c]) =>
                     /\ ret'.at = "error" /\ ret'.caller = c /\ ret'.url = g[c].url
                     /\ ret'.err = g[c].err /\ ret'.item = NilItem
                     /\ g'[c] = IdleG
        /\ ret'.at = "error" =>
              /\ CacheMap' = CacheMap
              /\ g'[ret'.caller].pc = "idle"
        /\ ret'.at \in {"cold", "refresh"} =>
              IsJsonPassthrough(ret'.url) \/ XmlUnmarshalOk(ret'.raw) ]_vars

\* C14 witness: the refresh of a tombstone failed in xml.Unmarshal, Get
\* returned the error and the tombstone is still the entry.
C14_Witness ==
    /\ ret.at = "error" /\ ret.err = "xml.Unmarshal"
    /\ ret.url \in DOMAIN CacheMap
    /\ CacheMap[ret.url].Json = ""
    /\ CacheMap[ret.url].ContentHash # MD5(BodyEmpty)
    /\ IsExpired(CacheMap[ret.url], now)

\* C15: a Get whose upstream response has a status outside 200..299 fails:
\* it returns an error, and so (C14) stores and changes no entry.
C15_Non2xxFails ==
    (ret.upstreamCalled /\ ret.status # 0 /\ ret.status \notin 200..299) => ret.at = "error"


(***************************************************************************)
(* Shards: C16 .. C20 (AddSpec).                                           *)
(***************************************************************************)
\* the step is the start of AddServer(url, ...) by caller c
IsAddServerCall(c, url) ==
    /\ adder[c].pc = "idle"
    /\ \/ adder'[c].pc = "store" /\ adder'[c].url = url
       \/ ret'.at = "duplicate" /\ ret'.caller = c /\ ret'.url = url

\* C16: AddServer called for a URL whose base URL already has a shard
\* returns the already-exists error at once and leaves the shard map, the
\* shard's pool, its entry map and its TTL as they were.
C16_DuplicateLeavesCache ==
    [][ \A c \in Callers, url \in ServerUrls :
          (IsAddServerCall(c, url) /\ getBaseUrl(url) \in DOMAIN ServerCache) =>
              /\ ret' = Returned(c, "duplicate", url, NilItem, "server cache already exists", FALSE)
              /\ adder'[c].pc = "idle"
              /\ ServerCache' = ServerCache
              /\ pool' = pool /\ poolSize' = poolSize
              /\ CacheMap' = CacheMap ]_vars

\* C16 witness: AddServer was refused for the server whose shard holds an
\* entry.
C16_Witness ==
    /\ ret.at = "duplicate" /\ ret.url = ServerUrl
    /\ CacheMap # << >>
    /\ sc.ServerName = getBaseUrl(ServerUrl)

\* C17: a shard that is stored under a base URL stays: no AddServer call
\* returns success for a base URL that has a shard, and no step replaces
\* the shard, its pool or its entries, also when the AddServer calls for
\* the base URL overlap.
C17_AddedAtMostOnce ==
    [][ \A b \in DOMAIN ServerCache :
          /\ b \in DOMAIN ServerCache' /\ ServerCache'[b] = ServerCache[b]
          /\ ~(ret'.at = "added" /\ getBaseUrl(ret'.url) = b)
          /\ b = getBaseUrl(ServerUrl) =>
                /\ DOMAIN CacheMap \subseteq DOMAIN CacheMap'
                /\ poolSize' = poolSize ]_vars

\* C18: after AddServer(url) succeeded the shard is stored under
\* getBaseUrl(url) with that ServerName; when url is scheme://host without
\* port, path and query, the shard is also what a load under the string
\* url finds, and its ServerName is that string.
C18_StoredUnderSuppliedUrl ==
    ret.at = "added" =>
        /\ getBaseUrl(ret.url) \in DOMAIN ServerCache
        /\ ServerCache[getBaseUrl(ret.url)].ServerName = getBaseUrl(ret.url)
        /\ (Len(HostParts(ret.url.host)) = 1 /\ ret.url.path = "" /\ ret.url.query = "") =>
              /\ UrlString(ret.url) \in DOMAIN ServerCache
              /\ ServerCache[UrlString(ret.url)].ServerName = UrlString(ret.url)

\* C19: the shard AddServer stores has MaxAge = its maxAge argument when
\* that is not zero and the cache's MaxAge when it is zero; the entry a
\* cold miss writes has the MaxAge of the shard its Get loaded as MaxAge
\* and BaseMaxAge, and is the entry of the key when that shard is still
\* the registered one.
C19_ShardTtl ==
    [][ /\ \A c \in Callers :
              (adder[c].pc = "store" /\ adder'[c].pc = "idle") =>
                  LET b == getBaseUrl(adder[c].url)
                  IN  /\ b \in DOMAIN ServerCache'
                      /\ ServerCache'[b].MaxAge = IF adder[c].maxAge = 0 THEN cache.MaxAge
                                                                         ELSE adder[c].maxAge
        /\ ret'.at = "cold" =>
              /\ ret'.item.MaxAge = ScOf(ret'.caller).MaxAge
              /\ ret'.item.BaseMaxAge = ScOf(ret'.caller).MaxAge
              /\ g[ret'.caller].gen = 0 =>
                    /\ ScOf(ret'.caller) = ServerCache'[getBaseUrl(ret'.url)]
                    /\ CacheMap'[ret'.url] = ret'.item ]_vars

\* C19 witness: GetCache(0, ...) and AddServer(..., 0): the shard took the
\* default TTL, and so did the entry of a cold miss.
C19_Witness ==
    /\ cache.MaxAge = DefaultMaxAge
    /\ ret.at = "cold"
    /\ sc.MaxAge = DefaultMaxAge
    /\ ret.item.MaxAge = DefaultMaxAge /\ ret.item.BaseMaxAge = DefaultMaxAge

\* C20: Get for a URL whose base URL has no shard returns the no-shard
\* error in its first step: it acquires no connection, calls no upstream,
\* adds no shard and leaves the pool and the entry map as they were.
C20_NoShardError ==
    [][ \A c \in Callers, u \in RequestUrls :
          (IsGetCall(c, u) /\ getBaseUrl(u) \notin DOMAIN ServerCache) =>
              /\ ret' = Returned(c, "noshard", u, NilItem, "server cache does not exist", FALSE)
              /\ g' = g
              /\ pool' = pool
              /\ ServerCache' = ServerCache
              /\ CacheMap' = CacheMap ]_vars

\* C20 witness: Get failed for the unregistered server while the registered
\* one has an entry and all its connections.
C20_Witness ==
    /\ ret.at = "noshard" /\ ret.url = UrlOther
    /\ CacheMap # << >>
    /\ Len(pool.connections) = poolSize


(***************************************************************************)
(* Counters: C21 (Spec).                                                   *)
(***************************************************************************)
\* C21: a Get served as a hit leaves an entry whose HitCount is one more
\* than before, a Get that contacted the upstream (cold miss, refresh) an
\* entry whose MissCount is one more than before (one after a cold miss);
\* no step, of Get or of the sweeper, decreases a counter of an entry.
C21_CountersAdvance ==
    [][ /\ ret'.at = "hit" =>
              HitCount(CacheMap'[ret'.url]) = HitCount(CacheMap[ret'.url]) + 1
        /\ ret'.at = "refresh" =>
              /\ MissCount(CacheMap'[ret'.url]) = MissCount(CacheMap[ret'.url]) + 1
              /\ HitCount(CacheMap'[ret'.url]) = HitCount(CacheMap[ret'.url])
        /\ ret'.at = "cold" => MissCount(CacheMap'[ret'.url]) = 1
        /\ \A u \in DOMAIN CacheMap :
              /\ u \in DOMAIN CacheMap'
              /\ HitCount(CacheMap'[u]) >= HitCount(CacheMap[u])
              /\ MissCount(CacheMap'[u]) >= MissCount(CacheMap[u]) ]_vars

(***************************************************************************)
(* Populator: C22, C23, C24 (PopSpec, PopFairSpec, PopHealthySpec).        *)
(***************************************************************************)
\* C22: PopulateCoreTypes and every child fetch it started eventually have
\* all returned, with poolSize connections back in the pool's channel, for
\* every pool size >= 1 and also with more children than connections.
C22_PopulatorTerminates ==
    <>(PopTerminated /\ Len(pool.connections) = poolSize)

\* C23: once PopulateCoreTypes has returned without error on a fresh shard
\* whose upstream answers every request, and all its children are through,
\* every URL its loops referenced (each action and its /status, each
\* computer, each custom, external and operator site and the action site,
\* each with its /content) is a key of the entry map.
C23_ChildrenCached ==
    (PopTerminated /\ pop.err = "") =>
        /\ upstream = BodyIndexAC =>
               {UrlAction1, UrlPlus(UrlAction1, "/status"), UrlComputer1} \subseteq DOMAIN CacheMap
        /\ upstream = BodyIndexS =>
               {UrlSite1, UrlPlus(UrlSite1, "/content")} \subseteq DOMAIN CacheMap
        /\ upstream = BodyIndexEA =>
               {UrlExternal1, UrlPlus(UrlExternal1, "/content"),
                UrlMaster, UrlPlus(UrlMaster, "/content")} \subseteq DOMAIN CacheMap
        /\ upstream = BodyIndexO =>
               {UrlOperator1, UrlPlus(UrlOperator1, "/content")} \subseteq DOMAIN CacheMap

C23_Witness ==
    /\ PopTerminated
    /\ pop.err = ""
    /\ upstream = BodyIndexAC
    /\ poolSize = 1
    /\ UrlPlus(UrlAction1, "/status") \in DOMAIN CacheMap
    /\ UrlComputer1 \in DOMAIN CacheMap

\* C24 as stated: when the Get of an index endpoint fails, or its result
\* does not parse, PopulateCoreTypes returns no error for it and goes on
\* with the next index endpoint.
C24_ErrorsSwallowed ==
    [][ (ret.caller = PopParent /\ ret.err # "") =>
            /\ pop'.err = ""
            /\ pop'.pc = NextIndex(pop.pc) ]_vars

\* C24: the error of a child fetch is dropped: it changes nothing of what
\* PopulateCoreTypes does or returns.  A failed Get of an index endpoint, or
\* a result that does not parse, ends PopulateCoreTypes: it returns that
\* error, starts no child for the endpoint and fetches no further index
\* endpoint.
C24_IndexErrorReturned ==
    [][ /\ (ret.caller = PopParent /\ ret.err # "") =>
               /\ pop' = [pc |-> "done", err |-> ret.err]
               /\ g' = g
        /\ (ret'.caller \in Children /\ ret'.err # "") => pop' = pop
        /\ pop.pc = "done" => /\ pop' = pop
                              /\ g'[PopParent] = g[PopParent] ]_vars

C24_Witness ==
    /\ pop = [pc |-> "done", err |-> "transport"]
    /\ UrlAction1 \in DOMAIN CacheMap
    /\ UrlPlus(UrlAction1, "/status") \notin DOMAIN CacheMap
    /\ \A c \in PopProcs : g[c].pc = "idle"

(***************************************************************************)
(* Closed pool: C25, C26 (PoolSpec).                                       *)
(***************************************************************************)
\* C25: on a closed pool every Acquire returns the pool-closed error
\* without a connection and leaves the pool as it is; a further Close
\* changes nothing, and nothing holds the mutex Close would wait for.
C25_ClosedRefusesAcquire ==
    [][ /\ \A c \in Callers :
              (pool.closed /\ g[c].pc = "acquire" /\ g'[c] # g[c]) =>
                  /\ ret'.caller = c
                  /\ ret'.err = "pool is closed"
                  /\ ret'.item = NilItem
                  /\ g'[c] = IdleG
                  /\ pool' = pool
        /\ pool.closed => /\ pool.mutex = 0
                          /\ \A c \in Callers : g[c].pc # "receive"
        /\ (pool.closed /\ Close) => pool' = pool ]_vars

C25_Witness ==
    /\ pool.closed
    /\ ret.at = "error"
    /\ ret.err = "pool is closed"
    /\ ~ret.upstreamCalled

\* C26: Release on a closed pool returns with the pool unchanged: it sends
\* nothing on the closed channel, so that the channel of a closed pool is
\* always empty and the mutex free, and the connection is never received
\* again.
C26_ClosedReleaseDrops ==
    [][ /\ \A c \in Callers :
              (pool.closed /\ g[c].pc = "release" /\ g'[c] # g[c]) =>
                  /\ pool' = pool
                  /\ g'[c].conn = 0
        /\ pool'.closed => /\ pool'.connections = << >>
                           /\ pool'.mutex = 0 ]_vars

C26_Witness ==
    /\ pool.closed
    /\ pool.connections = << >>
    /\ ret.at = "error"
    /\ ret.upstreamCalled

C28_IsCacheHitExact ==
    [][ /\ (ret'.caller = UrlsClient /\ UrlsResponse'.code = 200) =>
               (UrlsResponse'.iscachehit <=> ret'.at = "hit")
        /\ (g[UrlsClient].pc = "idle" /\ g'[UrlsClient].pc = "called") =>
               /\ CacheMap' = CacheMap
               /\ ServerCache' = ServerCache ]_vars

(***************************************************************************)
(* Singleton: C29 (SingletonSpec).                                         *)
(***************************************************************************)
\* C29: a GetCache(a, l) that finds no instance creates one with MaxAge = a
\* (300 for 0) and MaxCacheLifetime = l (86400 for 0); a GetCache that finds
\* an instance returns it with its values as they are, whatever a and l; the
\* instance changes only by ResetCache, so that calls that race for the
\* first creation create one object.
C29_OneInstance ==
    [][ /\ \A c \in Callers :
              (cacheMu.holder = c /\ cacheMu.fn = "GetCache" /\ cacheMu'.holder = 0) =>
                  /\ cacheInstance'.ptr # 0
                  /\ IF cacheInstance.ptr = 0
                     THEN /\ cacheInstance'.made = cacheInstance.made + 1
                          /\ cache'.MaxAge = IF cacheMu.maxAgeSeconds = 0
                                             THEN 300 ELSE cacheMu.maxAgeSeconds
                          /\ cache'.MaxCacheLifetime = IF cacheMu.maxCacheLifetime = 0
                                                       THEN 86400 ELSE cacheMu.maxCacheLifetime
                     ELSE /\ cacheInstance' = cacheInstance
                          /\ cache' = cache
        /\ (cacheInstance.ptr # 0 /\ cacheInstance'.ptr # cacheInstance.ptr) =>
               /\ cacheMu.fn = "ResetCache"
               /\ cacheInstance'.ptr = 0 ]_vars

C29_Witness ==
    /\ cacheInstance = [ptr |-> 2, made |-> 2]
    /\ cache = [MaxAge |-> 300, MaxCacheLifetime |-> 86400]
    /\ cacheMu.fn = "GetCache"
    /\ cacheMu.maxAgeSeconds = MaxTTL
    /\ cacheMu.maxCacheLifetime = MaxLifetime

(***************************************************************************)
(* Concurrent Gets of one key: C30 (ConcSpec).                             *)
(***************************************************************************)
\* C30: a caller that missed or found the entry in need of a refresh
\* receives a connection no other caller holds and returns an entry only
\* after its own fetch, built from the response of that fetch, also when
\* another caller fetches or has stored the same key meanwhile; each Store
\* replaces the entry of its key, whatever is there, by the entry it
\* returns and touches no other key.
C30_LastWriterWins ==
    [][ /\ ret'.at \in {"cold", "refresh"} =>
               /\ g[ret'.caller].pc = "store"
               /\ ret'.upstreamCalled
               /\ ret'.raw = g[ret'.caller].raw
               /\ ret'.item.Json = BodyOf(ret'.url, g[ret'.caller].raw)
               /\ ret'.item.Timestamp = IF ret'.at = "cold" THEN g[ret'.caller].fetchedAt
                                                            ELSE now
               /\ CacheMap'[ret'.url] = ret'.item
               /\ \A u \in DOMAIN CacheMap \ {ret'.url} : CacheMap'[u] = CacheMap[u]
        /\ \A c \in Callers :
              /\ (g[c].pc \in {"acquire", "receive", "fetch"} /\ g'[c].pc = "idle") =>
                     ret'.err # ""
              /\ (g[c].pc = "receive" /\ g'[c].pc = "fetch") =>
                     /\ g'[c].conn # 0
                     /\ \A d \in Callers \ {c} : g'[d].conn # g'[c].conn ]_vars

\* C30 witness: two callers loaded the same expired entry, both fetched and
\* both stored their extension of it; the entry is the one stored last.
C30_Witness ==
    /\ ret.at = "refresh"
    /\ UrlXml \in DOMAIN extHist
    /\ Len(extHist[UrlXml]) = 2
    /\ extHist[UrlXml][1] = extHist[UrlXml][2]
    /\ CacheMap[UrlXml] = ret.item
    /\ ret.fetchedAt < now

(***************************************************************************)
(* Sweeps beside Gets: C31, C32, C33 (GcSpec).                             *)
(***************************************************************************)
\* C31: when the sweeper stores a tombstone, the entry it replaces is the
\* entry it had loaded and found expired: the tombstone has the Timestamp,
\* MaxAge, BaseMaxAge and ContentHash of the entry it replaces, and that
\* entry is expired at that time.  A sweep never writes the tombstone of
\* the entry it had loaded over an entry a refresh has stored since.
C31_NoStaleTombstone ==
    [][ (sweeper.pc = "store" /\ sweeper'.pc = "range") =>
            \A u \in DOMAIN CacheMap :
                CacheMap'[u] # CacheMap[u] =>
                    /\ IsExpired(CacheMap[u], now)
                    /\ CacheMap'[u] = ClearedItem(CacheMap[u]) ]_vars

\* C32: in every state every entry has a non-empty ContentHash; an entry
\* with a body has the MD5 of the response its body was made from; and a
\* tombstone the sweeper stores has the ContentHash of the entry it
\* replaces, under every interleaving of Get and the sweeper.
C32_ConsistentSnapshot ==
    [][ \A u \in DOMAIN CacheMap' :
           LET e == CacheMap'[u]
           IN  /\ e.ContentHash # ""
               /\ e.Json # "" =>
                      \E raw \in Bodies : e.Json = BodyOf(u, raw) /\ e.ContentHash = MD5(raw)
               /\ (sweeper.pc = "store" /\ sweeper'.pc = "range" /\ u \in DOMAIN CacheMap
                                        /\ e # CacheMap[u]) =>
                      /\ e.Json = ""
                      /\ e.ContentHash = CacheMap[u].ContentHash ]_vars

\* C33: a key keeps its BaseMaxAge: every write under a key that has an
\* entry (extension, reset, tombstone, a second cold-miss write) stores the
\* BaseMaxAge of the entry it replaces, and no key is removed.
C33_BaseMaxAgeFixed ==
    [][ \A u \in DOMAIN CacheMap :
           /\ u \in DOMAIN CacheMap'
           /\ CacheMap'[u].BaseMaxAge = CacheMap[u].BaseMaxAge ]_vars

\* C33 witness: an entry that was extended and then reset by a refresh
\* while the sweeper runs.
C33_Witness ==
    /\ ret.at = "refresh"
    /\ sweeper.pc = "store"
    /\ ret.old.MaxAge > ret.old.BaseMaxAge
    /\ ret.item.MaxAge = ret.item.BaseMaxAge
    /\ CacheMap[ret.url] = ret.item

(***************************************************************************)
(* Acquire beside Close: C34 (PoolFairSpec).                               *)
(***************************************************************************)
\* C34: a caller whose Acquire returned without error holds one of the
\* pool's connections, never nil, and a caller whose Acquire returned an
\* error found the pool closed; and a caller that waits in Acquire on an
\* empty pool when Close is called goes on to return from Acquire, with a
\* connection or with the pool-closed error.
C34_NoNilConnection ==
    /\ [](/\ \A c \in Callers :
                /\ g[c].pc \in {"fetch", "release"} => g[c].conn \in 1..poolSize
                /\ g[c].pc = "receive" => ~pool.closed
          /\ (ret.at = "error" /\ ~ret.upstreamCalled) =>
                /\ pool.closed
                /\ ret.err = "pool is closed"
                /\ ret.item = NilItem)
    /\ \A c \in Callers :
          (g[c].pc = "receive" /\ pool.connections = << >> /\ closer = "lock")
              ~> \/ g[c].pc = "fetch" /\ g[c].conn \in 1..poolSize
                 \/ ret.caller = c /\ ret.err = "pool is closed"

(***************************************************************************)
(* AddServer with a pool that cannot be created: C35 (AddSizeSpec).        *)
(***************************************************************************)
\* C35: the registered shard of ServerUrl has a pool made for a positive
\* poolSize; an AddServer whose NewPool fails (poolSize <= 0) does not return
\* "added", and no Get ends in a nil pool.
C35_ShardHasPool ==
    /\ getBaseUrl(ServerUrl) \in DOMAIN ServerCache =>
          /\ ~pool.nil
          /\ poolSize > 0
    /\ ret.at # "panic"

(***************************************************************************)
(* cmd/bem: registration, one-time keys, client keys.                      *)
(***************************************************************************)
\* the most one-time keys held at a time
MaxOTPs == 2

\* the most registered clients
MaxClients == 2

\* the most admin sessions created
MaxSessions == 2

\* the days that pass in a run of the client key model
MaxDays == 1

\* the hours that pass in a run of the session model
MaxHours == 10

ClientNames == {"alice", "bob"}

OneTimeKeys == {"k1", "k2"}

\* the one-time keys an administrator drops into the registration directory
OTPInputs ==
    { RegistrationOTP("alice", "k1", 0), RegistrationOTP("alice", "k2", 1) }

\* the contents of a registration file: one one-time key
OTPFiles == { <<a>> : a \in OTPInputs }

\* registered_clients.json as an earlier run left it (the clock starts at 1):
\* nothing, valid clients, a client whose key expired at 0, a client whose
\* PublicKey is no PEM block
ClientFiles ==
    LET alice == RegisteredClient("alice", 1, NilTime, 0, 0)
        bob == RegisteredClient("bob", 2, HoursPerDay, 0, 1)
        expired == RegisteredClient("alice", 1, 0, 0, 1)
        invalid == RegisteredClient("bob", 0, NilTime, 0, 0)
    IN  { << >>, <<alice>>, <<bob>>, <<alice, bob>>, <<expired>>, <<invalid>>,
          <<expired, bob>>, <<alice, invalid>> }

MinOf(S) == CHOOSE x \in S : \A y \in S : x <= y

MaxOf(S) == CHOOSE x \in S : \A y \in S : y <= x

\* for i, x := range q { if Test(x) {...} }: the first index that passes, 0 if none
FirstIndex(q, Test(_)) ==
    LET idx == {i \in 1..Len(q) : Test(q[i])}
    IN  IF idx = {} THEN 0 ELSE MinOf(idx)

\* append(q[:i], q[i+1:]...), i counted from 1
RemoveAt(q, i) == SubSeq(q, 1, i - 1) \o SubSeq(q, i + 1, Len(q))

\* client.ExpiresAt != nil && time.Now().After(*client.ExpiresAt)
ClientExpired(client, t) == client.ExpiresAt # NilTime /\ t > client.ExpiresAt

\* isClientRegistered: the first client of that name decides
isClientRegistered(clients, clientName, t) ==
    LET NameIs(c) == c.ClientName = clientName
        i == FirstIndex(clients, NameIs)
    IN  i # 0 /\ ~ClientExpired(clients[i], t)

\* findAndRemoveOTP: the index of the first entry of that name and key
findOTP(otps, clientName, oneTimeKey) ==
    LET Matches(o) == o.ClientName = clientName /\ o.OneTimeKey = oneTimeKey
    IN  FirstIndex(otps, Matches)

\* findAndRemoveOTPByKey: the index of the first entry of that key
findOTPByKey(otps, oneTimeKey) ==
    LET Matches(o) == o.OneTimeKey = oneTimeKey
    IN  FirstIndex(otps, Matches)

\* the slice after a lookup found index i: the entry stays
RemoveFound_Keeps(otps, i) == otps

\* findAndRemoveOTP, findAndRemoveOTPByKey: the slice after a lookup found index i
RemoveFound(otps, i) == RemoveAt(otps, i)

\* loadRegisteredClients: pem.Decode and x509.ParsePKIXPublicKey accept the
\* key and the client has not expired
IsValidClient(client) == client.PublicKey # 0 /\ ~ClientExpired(client, now)

\* loadRegisteredClients: validClients
ValidClients(clients) == SelectSeq(clients, IsValidClient)

\* rsa.GenerateKey: a key pair no registered client has
NewPublicKey(clients) == 1 + MaxOf({0} \cup {clients[i].PublicKey : i \in 1..Len(clients)})

\* generateAndRegisterClient: expiresAt
ExpiresAtFor(otp, t) ==
    IF otp.KeyLifespanDays > 0 THEN t + otp.KeyLifespanDays * HoursPerDay ELSE NilTime

\* what a cmd/bem function or handler returned
RRet(p, fn, status, ok, name, key, token, at) ==
    [proc |-> p, fn |-> fn, status |-> status, ok |-> ok, name |-> name,
     key |-> key, token |-> token, at |-> at]

\* the Get side of the program stands still
BfrestUnchanged ==
    UNCHANGED <<upstream, cache, ServerCache, poolSize, pool, CacheMap, g, adder, sweeper,
                ret, extHist, pop, handler, cacheInstance, cacheMu, orphans, closer>>

\* main has loaded the registration data and the server answers requests
Serving == rq[MainProc].pc = "serving"

\* main: loadRegistrationOTPs (json.Unmarshal of registration_otps.json
\* under the mutex)
LoadRegistrationOTPs ==
    /\ rq[MainProc].pc = "loadOTPs"
    /\ registrationMutex = 0
    /\ registrationOTPs' = files.otps
    /\ rq' = [rq EXCEPT ![MainProc].pc = "loadClients"]
    /\ rret' = NoRRet
    /\ BfrestUnchanged
    /\ UNCHANGED <<now, registeredClients, registrationMutex, activeSessions, files,
                   deleters, issued>>

\* main: loadRegisteredClients up to its return or its call of
\* saveRegisteredClients: Lock (Unlock deferred), json.Unmarshal, the loop
\* that keeps the valid clients, and, when one was dropped, the assignment
LoadRegisteredClients ==
    /\ rq[MainProc].pc = "loadClients"
    /\ registrationMutex = 0
    /\ LET validClients == ValidClients(files.clients)
       IN  /\ registeredClients' = validClients
           /\ IF Len(validClients) # Len(files.clients)
              THEN \* return saveRegisteredClients(), the mutex still held
                   /\ registrationMutex' = MainProc
                   /\ rq' = [rq EXCEPT ![MainProc].pc = "saveClients",
                                       ![MainProc].fn = "load"]
                   /\ rret' = NoRRet
              ELSE \* return nil, the deferred Unlock runs
                   /\ registrationMutex' = 0
                   /\ rq' = [rq EXCEPT ![MainProc].pc = "serving"]
                   /\ rret' = RRet(MainProc, "loadRegisteredClients", 0, TRUE, "", "", 0, 0)
    /\ BfrestUnchanged
    /\ UNCHANGED <<now, registrationOTPs, activeSessions, files, deleters, issued>>

\* saveRegisteredClients called by goroutine p: Lock, write
\* registered_clients.json, Unlock; then what its caller does on its return
SaveRegisteredClients(p) ==
    /\ rq[p].pc = "saveClients"
    /\ registrationMutex = 0
    /\ files' = [files EXCEPT !.clients = registeredClients]
    /\ registrationMutex' = 0
    /\ CASE rq[p].fn = "register" ->
               \* generateAndRegisterClient goes on to saveRegistrationOTPs
               /\ rq' = [rq EXCEPT ![p].pc = "saveOTPs"]
               /\ rret' = NoRRet
         [] rq[p].fn = "load" ->
               \* loadRegisteredClients returns, its deferred Unlock runs
               /\ rq' = [rq EXCEPT ![p] = [IdleRq EXCEPT !.pc = "serving"]]
               /\ rret' = RRet(p, "loadRegisteredClients", 0, TRUE, "", "", 0, 0)
         [] OTHER ->
               \* the LastUsed goroutine ends, its deferred Unlock runs
               /\ rq' = [rq EXCEPT ![p] = IdleRq]
               /\ rret' = RRet(p, "lastUsed", 0, TRUE, rq[p].otp.ClientName, "", 0, 0)
    /\ BfrestUnchanged
    /\ UNCHANGED <<now, registrationOTPs, registeredClients, activeSessions, deleters, issued>>

\* saveRegistrationOTPs called by goroutine p: Lock, write
\* registration_otps.json, Unlock; then its caller's response
SaveRegistrationOTPs(p) ==
    /\ rq[p].pc = "saveOTPs"
    /\ registrationMutex = 0
    /\ files' = [files EXCEPT !.otps = registrationOTPs]
    /\ rret' = CASE rq[p].fn = "register" ->
                      RRet(p, "register", 200, TRUE, rq[p].otp.ClientName,
                           rq[p].otp.OneTimeKey, 0, 0)
                 [] rq[p].fn = "otp" ->
                      RRet(p, "otp", 200, TRUE, rq[p].otp.ClientName,
                           rq[p].otp.OneTimeKey, 0, 0)
                 [] OTHER -> NoRRet
    /\ rq' = [rq EXCEPT ![p] = IdleRq]
    /\ BfrestUnchanged
    /\ UNCHANGED <<now, registrationOTPs, registeredClients, registrationMutex,
                   activeSessions, deleters, issued>>

\* processRegistrationFile up to saveRegistrationOTPs: the file's one-time
\* keys are appended under the mutex
ProcessRegistrationFile(newOTPs) ==
    /\ Serving
    /\ rq[WatcherProc].pc = "idle"
    /\ registrationMutex = 0
    /\ Len(registrationOTPs) + Len(newOTPs) <= MaxOTPs
    /\ registrationOTPs' = registrationOTPs \o newOTPs
    /\ rq' = [rq EXCEPT ![WatcherProc].pc = "saveOTPs", ![WatcherProc].fn = "watch"]
    /\ rret' = NoRRet
    /\ BfrestUnchanged
    /\ UNCHANGED <<now, registeredClients, registrationMutex, activeSessions, files,
                   deleters, issued>>

\* handleRegisterEndpoint up to findAndRemoveOTP: isClientRegistered under
\* the read lock, 409 when it is
RegisterCheck(p, clientName, oneTimeKey) ==
    /\ Serving
    /\ rq[p].pc = "idle"
    /\ registrationMutex = 0
    /\ IF isClientRegistered(registeredClients, clientName, now)
       THEN /\ rret' = RRet(p, "register", 409, FALSE, clientName, oneTimeKey, 0, 0)
            /\ UNCHANGED rq
       ELSE /\ Len(registeredClients) < MaxClients
            /\ rq' = [rq EXCEPT ![p] = [IdleRq EXCEPT
                                           !.pc = "find", !.fn = "register",
                                           !.otp = RegistrationOTP(clientName, oneTimeKey, 0)]]
            /\ rret' = NoRRet
    /\ BfrestUnchanged
    /\ UNCHANGED <<now, registrationOTPs, registeredClients, registrationMutex,
                   activeSessions, files, deleters, issued>>

\* handleRegisterEndpoint: findAndRemoveOTP under the mutex, 401 when the
\* one-time key is not found
RegisterFind(p) ==
    /\ rq[p].pc = "find"
    /\ registrationMutex = 0
    /\ LET i == findOTP(registrationOTPs, rq[p].otp.ClientName, rq[p].otp.OneTimeKey)
       IN  IF i = 0
           THEN /\ rret' = RRet(p, "register", 401, FALSE, rq[p].otp.ClientName,
                                rq[p].otp.OneTimeKey, 0, 0)
                /\ rq' = [rq EXCEPT ![p] = IdleRq]
                /\ UNCHANGED registrationOTPs
           ELSE /\ registrationOTPs' = RemoveFound(registrationOTPs, i)
                /\ rq' = [rq EXCEPT ![p].pc = "generate", ![p].otp = registrationOTPs[i]]
                /\ rret' = RRet(p, "findAndRemoveOTP", 0, TRUE, registrationOTPs[i].ClientName,
                                registrationOTPs[i].OneTimeKey, 0, 0)
    /\ BfrestUnchanged
    /\ UNCHANGED <<now, registeredClients, registrationMutex, activeSessions, files,
                   deleters, issued>>

\* generateAndRegisterClient: the key pair and, when the one-time key has a
\* lifespan, expiry := time.Now().AddDate(0, 0, otp.KeyLifespanDays)
RegisterExpiry(p) ==
    /\ rq[p].pc = "generate"
    /\ rq' = [rq EXCEPT ![p].pc = "client", ![p].expiresAt = ExpiresAtFor(rq[p].otp, now)]
    /\ rret' = NoRRet
    /\ BfrestUnchanged
    /\ UNCHANGED <<now, registrationOTPs, registeredClients, registrationMutex,
                   activeSessions, files, deleters, issued>>

\* generateAndRegisterClient: the client record, LastUsed: time.Now()
RegisterClient(p) ==
    /\ rq[p].pc = "client"
    /\ rq' = [rq EXCEPT ![p].pc = "append", ![p].lastUsed = now]
    /\ rret' = NoRRet
    /\ BfrestUnchanged
    /\ UNCHANGED <<now, registrationOTPs, registeredClients, registrationMutex,
                   activeSessions, files, deleters, issued>>

\* generateAndRegisterClient up to saveRegisteredClients: the append of the
\* client record under the mutex
RegisterAppend(p) ==
    /\ rq[p].pc = "append"
    /\ registrationMutex = 0
    /\ registeredClients' =
           Append(registeredClients,
                  RegisteredClient(rq[p].otp.ClientName, NewPublicKey(registeredClients),
                                   rq[p].expiresAt, rq[p].lastUsed,
                                   rq[p].otp.KeyLifespanDays))
    /\ rq' = [rq EXCEPT ![p].pc = "saveClients"]
    /\ rret' = NoRRet
    /\ BfrestUnchanged
    /\ UNCHANGED <<now, registrationOTPs, registrationMutex, activeSessions, files,
                   deleters, issued>>

\* handleOTPEndpoint up to createAdminSession: findAndRemoveOTPByKey under
\* the mutex, 401 when the one-time key is not found
OTPFind(p, oneTimeKey) ==
    /\ Serving
    /\ rq[p].pc = "idle"
    /\ registrationMutex = 0
    /\ LET i == findOTPByKey(registrationOTPs, oneTimeKey)
       IN  IF i = 0
           THEN /\ rret' = RRet(p, "otp", 401, FALSE, "", oneTimeKey, 0, 0)
                /\ UNCHANGED <<rq, registrationOTPs>>
           ELSE /\ issued < MaxSessions
                /\ registrationOTPs' = RemoveFound(registrationOTPs, i)
                /\ rq' = [rq EXCEPT ![p] = [IdleRq EXCEPT !.pc = "session", !.fn = "otp",
                                                          !.otp = registrationOTPs[i]]]
                /\ rret' = RRet(p, "findAndRemoveOTPByKey", 0, TRUE,
                                registrationOTPs[i].ClientName, oneTimeKey, 0, 0)
    /\ BfrestUnchanged
    /\ UNCHANGED <<now, registeredClients, registrationMutex, activeSessions, files,
                   deleters, issued>>

\* generateSessionToken: 32 random bytes, a token not generated before
generateSessionToken == issued + 1

\* createAdminSession: expiresAt := time.Now().Add(8 * time.Hour)
SessionExpiry(t) == t + SessionHours

\* createAdminSession up to sessionMutex.Lock(): the token and its expiry
CreateAdminSession(p) ==
    /\ rq[p].pc = "session"
    /\ issued' = issued + 1
    /\ rq' = [rq EXCEPT ![p].pc = "insert", ![p].sessionToken = generateSessionToken,
                        ![p].expiresAt = SessionExpiry(now)]
    /\ rret' = NoRRet
    /\ BfrestUnchanged
    /\ UNCHANGED <<now, registrationOTPs, registeredClients, registrationMutex,
                   activeSessions, files, deleters>>

\* createAdminSession from sessionMutex.Lock() on: the token goes into
\* activeSessions with the expiry computed before, and is returned to
\* handleOTPEndpoint for the cookie
InsertAdminSession(p) ==
    /\ rq[p].pc = "insert"
    /\ activeSessions' = (rq[p].sessionToken :> rq[p].expiresAt) @@ activeSessions
    /\ rq' = [rq EXCEPT ![p].pc = "saveOTPs"]
    /\ rret' = RRet(p, "createAdminSession", 0, TRUE, rq[p].otp.ClientName, "",
                    rq[p].sessionToken, rq[p].expiresAt)
    /\ BfrestUnchanged
    /\ UNCHANGED <<now, registrationOTPs, registeredClients, registrationMutex, files,
                   deleters, issued>>

\* a check that accepts every token it finds
SessionExpired_Never(expiresAt, t) == FALSE

\* isValidSession: time.Now().After(expiresAt)
SessionExpired(expiresAt, t) == t > expiresAt

\* isValidSession(sessionToken) under the read lock of sessionMutex; an
\* expired token starts the goroutine that deletes it
IsValidSession(p, sessionToken) ==
    /\ Serving
    /\ rq[p].pc = "idle"
    /\ IF sessionToken \notin DOMAIN activeSessions
       THEN /\ rret' = RRet(p, "isValidSession", 0, FALSE, "", "", sessionToken, now)
            /\ UNCHANGED deleters
       ELSE IF SessionExpired(activeSessions[sessionToken], now)
       THEN /\ rret' = RRet(p, "isValidSession", 0, FALSE, "", "", sessionToken, now)
            /\ deleters' = deleters \cup {sessionToken}
       ELSE /\ rret' = RRet(p, "isValidSession", 0, TRUE, "", "", sessionToken, now)
            /\ UNCHANGED deleters
    /\ BfrestUnchanged
    /\ UNCHANGED <<now, registrationOTPs, registeredClients, registrationMutex,
                   activeSessions, files, rq, issued>>

\* the goroutine isValidSession started: delete(activeSessions, sessionToken)
\* under sessionMutex
DeleteSession(sessionToken) ==
    /\ sessionToken \in deleters
    /\ deleters' = deleters \ {sessionToken}
    /\ activeSessions' = [t \in DOMAIN activeSessions \ {sessionToken} |-> activeSessions[t]]
    /\ rret' = NoRRet
    /\ BfrestUnchanged
    /\ UNCHANGED <<now, registrationOTPs, registeredClients, registrationMutex, files, rq,
                   issued>>

\* cleanupExpiredSessions, called on every tick of main's 30 minute ticker
CleanupExpiredSessions ==
    /\ Serving
    /\ activeSessions' = [t \in {x \in DOMAIN activeSessions : ~(now > activeSessions[x])}
                              |-> activeSessions[t]]
    /\ rret' = RRet(MainProc, "cleanupExpiredSessions", 0, TRUE, "", "", 0, now)
    /\ BfrestUnchanged
    /\ UNCHANGED <<now, registrationOTPs, registeredClients, registrationMutex, files, rq,
                   deleters, issued>>

\* isValidClientKey(encodedPrivateKey) for the private key of key pair k (0:
\* a string that does not decode, refused before the mutex is touched): the
\* first client with that public key under the read lock; a match that has
\* not expired starts a goroutine that updates LastUsed (at most MaxUpdaters
\* of them are pending)
IsValidClientKey(p, k) ==
    /\ Serving
    /\ rq[p].pc = "idle"
    /\ k # 0 => registrationMutex = 0
    /\ LET KeyIs(c) == c.PublicKey = k
           i == IF k = 0 THEN 0 ELSE FirstIndex(registeredClients, KeyIs)
           free == {q \in UpdaterProcs : rq[q].pc = "idle"}
       IN  IF i = 0
           THEN /\ rret' = RRet(p, "isValidClientKey", 0, FALSE, "", "", k, now)
                /\ UNCHANGED rq
           ELSE IF ClientExpired(registeredClients[i], now)
           THEN /\ rret' = RRet(p, "isValidClientKey", 0, FALSE, "", "", k, now)
                /\ UNCHANGED rq
           ELSE /\ free # {}
                /\ rq' = [rq EXCEPT ![MinOf(free)] =
                             [IdleRq EXCEPT
                                 !.pc = "lock", !.fn = "lastUsed",
                                 !.otp = RegistrationOTP(registeredClients[i].ClientName,
                                                         "", 0)]]
                /\ rret' = RRet(p, "isValidClientKey", 0, TRUE,
                                registeredClients[i].ClientName, "", k, now)
    /\ BfrestUnchanged
    /\ UNCHANGED <<now, registrationOTPs, registeredClients, registrationMutex,
                   activeSessions, files, deleters, issued>>

\* the LastUsed goroutine up to its call of saveRegisteredClients: Lock
\* (Unlock deferred), LastUsed of the first client of that name
UpdateLastUsed(q) ==
    /\ rq[q].pc = "lock"
    /\ registrationMutex = 0
    /\ registrationMutex' = q
    /\ LET NameIs(c) == c.ClientName = rq[q].otp.ClientName
           i == FirstIndex(registeredClients, NameIs)
       IN  registeredClients' = IF i = 0 THEN registeredClients
                                ELSE [registeredClients EXCEPT ![i].LastUsed = now]
    /\ rq' = [rq EXCEPT ![q].pc = "saveClients"]
    /\ rret' = NoRRet
    /\ BfrestUnchanged
    /\ UNCHANGED <<now, registrationOTPs, activeSessions, files, deleters, issued>>

\* a day passes
RegDay ==
    /\ Serving
    /\ now + HoursPerDay <= 1 + MaxDays * HoursPerDay
    /\ now' = now + HoursPerDay
    /\ rret' = NoRRet
    /\ BfrestUnchanged
    /\ UNCHANGED <<registrationOTPs, registeredClients, registrationMutex, activeSessions,
                   files, rq, deleters, issued>>

\* an hour passes
RegHour ==
    /\ Serving
    /\ now < MaxHours
    /\ now' = now + 1
    /\ rret' = NoRRet
    /\ BfrestUnchanged
    /\ UNCHANGED <<registrationOTPs, registeredClients, registrationMutex, activeSessions,
                   files, rq, deleters, issued>>

\* main starts: the package variables have their zero values, the data
\* directory holds what earlier runs left
RegInitWith(clientFiles, otpFiles) ==
    /\ now = 1
    /\ upstream = BodyBESAPI
    /\ cache = GetCache(DefaultMaxAge, DefaultMaxCacheLifetime)
    /\ ServerCache = << >>
    /\ poolSize = 0
    /\ pool = NoPool
    /\ CacheMap = << >>
    /\ g = [c \in Callers |-> IdleG]
    /\ adder = [c \in Callers |-> IdleA]
    /\ pop = IdlePop
    /\ handler = IdleHandler
    /\ cacheInstance = FirstInstance
    /\ cacheMu = FreeMu
    /\ orphans = << >>
    /\ closer = "idle"
    /\ sweeper = IdleSweeper
    /\ ret = NoRet
    /\ extHist = << >>
    /\ registrationOTPs = << >>
    /\ registeredClients = << >>
    /\ registrationMutex = 0
    /\ activeSessions = << >>
    /\ \E cf \in clientFiles, of \in otpFiles : files = [clients |-> cf, otps |-> of]
    /\ rq = [p \in RegProcs |-> IF p = MainProc THEN [IdleRq EXCEPT !.pc = "loadOTPs"]
                                ELSE IdleRq]
    /\ deleters = {}
    /\ issued = 0
    /\ rret = NoRRet

\* RegSpec: the data directory holds registered clients and no one-time keys
RegInit == RegInitWith(ClientFiles, {<< >>})

RegNext ==
    \/ LoadRegistrationOTPs
    \/ LoadRegisteredClients
    \/ \E p \in RegProcs : SaveRegisteredClients(p)
    \/ \E p \in RegProcs : SaveRegistrationOTPs(p)
    \/ \E f \in OTPFiles : ProcessRegistrationFile(f)
    \/ \E p \in RegClients, n \in ClientNames, k \in OneTimeKeys : RegisterCheck(p, n, k)
    \/ \E p \in RegClients : RegisterFind(p)
    \/ \E p \in RegClients : RegisterExpiry(p)
    \/ \E p \in RegClients : RegisterClient(p)
    \/ \E p \in RegClients : RegisterAppend(p)
    \/ \E p \in RegClients, k \in OneTimeKeys : OTPFind(p, k)
    \/ \E p \in RegClients : CreateAdminSession(p)
    \/ \E p \in RegClients : InsertAdminSession(p)

RegSpec == RegInit /\ [][RegNext]_vars

\* AuthSpec: requests authenticated by client keys beside registrations,
\* while days pass; the data directory holds clients and one-time keys
AuthInit == RegInitWith(ClientFiles, {<< >>} \cup OTPFiles)

AuthNext ==
    \/ LoadRegistrationOTPs
    \/ LoadRegisteredClients
    \/ \E p \in RegProcs : SaveRegisteredClients(p)
    \/ \E p \in RegProcs : SaveRegistrationOTPs(p)
    \/ \E p \in RegClients, n \in ClientNames, k \in OneTimeKeys : RegisterCheck(p, n, k)
    \/ \E p \in RegClients : RegisterFind(p)
    \/ \E p \in RegClients : RegisterExpiry(p)
    \/ \E p \in RegClients : RegisterClient(p)
    \/ \E p \in RegClients : RegisterAppend(p)
    \/ \E p \in RegClients, k \in 0..MaxClients : IsValidClientKey(p, k)
    \/ \E q \in UpdaterProcs : UpdateLastUsed(q)
    \/ RegDay

AuthSpec == AuthInit /\ [][AuthNext]_vars

\* SessSpec: admin sessions made from one-time keys, validated and cleaned
\* up while hours pass
SessInit ==
    RegInitWith({<< >>}, OTPFiles \cup { <<a, b>> : a \in OTPInputs, b \in OTPInputs })

SessNext ==
    \/ LoadRegistrationOTPs
    \/ LoadRegisteredClients
    \/ \E p \in RegProcs : SaveRegistrationOTPs(p)
    \/ \E p \in RegClients, k \in OneTimeKeys : OTPFind(p, k)
    \/ \E p \in RegClients : CreateAdminSession(p)
    \/ \E p \in RegClients : InsertAdminSession(p)
    \/ \E p \in RegClients, t \in 1..MaxSessions : IsValidSession(p, t)
    \/ \E t \in 1..MaxSessions : DeleteSession(t)
    \/ CleanupExpiredSessions
    \/ RegHour

SessSpec == SessInit /\ [][SessNext]_vars

\* the ticker, the goroutines and the handlers that have started all run on
SessFairSpec ==
    /\ SessSpec
    /\ WF_vars(CleanupExpiredSessions)
    /\ \A t \in 1..MaxSessions : WF_vars(DeleteSession(t))

RegTypeOK ==
    /\ registrationMutex \in {0} \cup RegProcs
    /\ Len(registrationOTPs) <= MaxOTPs
    /\ \A p \in RegProcs :
          rq[p].pc \in {"idle", "loadOTPs", "loadClients", "serving", "saveClients",
                        "saveOTPs", "find", "generate", "client", "append", "session",
                        "insert", "lock"}

(***************************************************************************)
(* One-time keys and registrations: C36, C37, C39 (RegSpec).               *)
(***************************************************************************)
\* the entries of the slice that carry that client name and one-time key
OTPCount(otps, clientName, oneTimeKey) ==
    Cardinality({i \in 1..Len(otps) : /\ otps[i].ClientName = clientName
                                      /\ otps[i].OneTimeKey = oneTimeKey})

\* the lookup the step just taken returned from found its one-time key
FoundOTP(r) == r.fn \in {"findAndRemoveOTP", "findAndRemoveOTPByKey"} /\ r.ok

\* C36 as stated: once a /otp or /register request has found a one-time
\* key, that key is no longer in registrationOTPs, so that no other request
\* presenting it finds it.
C36_ConsumedOnce ==
    FoundOTP(rret) => OTPCount(registrationOTPs, rret.name, rret.key) = 0

\* C36, amended: a lookup that finds a one-time key removes exactly one entry
\* of it and leaves the others, and a lookup that does not find it leaves
\* the slice alone and only happens when no entry matches; a key listed n
\* times is therefore found by at most n requests, and a key listed once is
\* gone after the request that found it.
C36_ConsumesOneEntry ==
    [][ /\ FoundOTP(rret') =>
              /\ OTPCount(registrationOTPs, rret'.name, rret'.key) >= 1
              /\ OTPCount(registrationOTPs', rret'.name, rret'.key)
                     = OTPCount(registrationOTPs, rret'.name, rret'.key) - 1
              /\ Len(registrationOTPs') = Len(registrationOTPs) - 1
        /\ (rret'.status = 401 /\ rret'.fn = "register") =>
              /\ OTPCount(registrationOTPs, rret'.name, rret'.key) = 0
              /\ registrationOTPs' = registrationOTPs
        /\ (rret'.status = 401 /\ rret'.fn = "otp") =>
              /\ \A i \in 1..Len(registrationOTPs) :
                    registrationOTPs[i].OneTimeKey # rret'.key
              /\ registrationOTPs' = registrationOTPs ]_vars

\* C36 witness: a /register request was refused with 401 for a one-time key
\* that a concurrent /otp request found while the /register request was
\* between its isClientRegistered and its findAndRemoveOTP.
C36_Witness ==
    /\ rret.fn = "register"
    /\ rret.status = 401
    /\ \E p \in RegClients :
          /\ rq[p].fn = "otp"
          /\ rq[p].pc \in {"session", "insert", "saveOTPs"}
          /\ rq[p].otp.ClientName = rret.name
          /\ rq[p].otp.OneTimeKey = rret.key

\* the registered clients of that name that have not expired
Registrations(clientName) ==
    {i \in 1..Len(registeredClients) :
        /\ registeredClients[i].ClientName = clientName
        /\ ~ClientExpired(registeredClients[i], now)}

\* C37: a client name has at most one registration that has not expired.
C37_OneRegistrationPerName ==
    \A n \in ClientNames : Cardinality(Registrations(n)) <= 1

\* C39: loadRegisteredClients does not stop at a Lock of registrationMutex
\* while it holds that mutex itself (a Lock that never returns), and when it
\* has returned the mutex is free, registeredClients holds valid, unexpired
\* clients only and registered_clients.json holds the same clients.
C39_LoadReturns ==
    /\ rq[MainProc].pc = "saveClients" => registrationMutex # MainProc
    /\ rret.fn = "loadRegisteredClients" =>
          /\ registrationMutex = 0
          /\ \A i \in 1..Len(registeredClients) : IsValidClient(registeredClients[i])
          /\ files.clients = registeredClients

(***************************************************************************)
(* Admin sessions: C38 (SessFairSpec).                                     *)
(***************************************************************************)
\* the token is in activeSessions and the clock is after its expiry
ExpiredSession(t) == t \in DOMAIN activeSessions /\ now > activeSessions[t]

\* C38: isValidSession accepts a token only if createAdminSession issued it
\* and the clock is not after its expiry, which is eight hours after the
\* time createAdminSession read when it generated the token and never
\* changes; an expired token is never accepted, and every expired token is
\* eventually removed from activeSessions.
C38_SessionValidUntilExpiry ==
    /\ [](rret.fn = "isValidSession" =>
             rret.ok = /\ rret.token \in 1..issued
                       /\ rret.token \in DOMAIN activeSessions
                       /\ ~ExpiredSession(rret.token))
    /\ [][ /\ \A p \in RegClients :
                 /\ (rq[p].pc = "session" /\ rq'[p].pc = "insert") =>
                        /\ issued' = issued + 1
                        /\ rq'[p].sessionToken = issued'
                        /\ rq'[p].expiresAt = now + SessionHours
                 /\ (rq[p].pc = "insert" /\ rq'[p].pc = "insert") =>
                        /\ rq'[p].sessionToken = rq[p].sessionToken
                        /\ rq'[p].expiresAt = rq[p].expiresAt
                 /\ (rq[p].pc = "insert" /\ rq'[p].pc # "insert") =>
                        /\ rret'.fn = "createAdminSession"
                        /\ rret'.token = rq[p].sessionToken
                        /\ activeSessions'[rret'.token] = rq[p].expiresAt
           /\ rret'.fn = "createAdminSession" =>
                 /\ rret'.token \notin DOMAIN activeSessions
                 /\ rret'.token \in 1..issued
                 /\ rret'.at = activeSessions'[rret'.token]
           /\ \A t \in DOMAIN activeSessions' :
                 IF t \in DOMAIN activeSessions
                 THEN activeSessions'[t] = activeSessions[t]
                 ELSE rret'.fn = "createAdminSession" /\ rret'.token = t ]_vars
    /\ \A t \in 1..MaxSessions : ExpiredSession(t) ~> (t \notin DOMAIN activeSessions)

\* C38 witness: a token that was issued is presented in the first hour after
\* its expiry and refused, while it is still in activeSessions.
C38_Witness ==
    /\ rret.fn = "isValidSession"
    /\ ~rret.ok
    /\ rret.token \in DOMAIN activeSessions
    /\ now = activeSessions[rret.token] + 1
    /\ rret.token \in deleters

(***************************************************************************)
(* The LastUsed goroutine: C40 (AuthSpec).                                 *)
(***************************************************************************)
\* C40: the goroutine that updates LastUsed does not stop at a Lock of
\* registrationMutex while it holds that mutex itself, so that it ends and
\* frees the mutex for every later operation.
C40_LastUsedCompletes ==
    \A q \in UpdaterProcs : rq[q].pc = "saveClients" => registrationMutex # q

====
